---------------------------- MODULE Spec2Model ----------------------------
(***************************************************************************)
(* Model of condor's rotation tools (src/src/utils/rotation.py): the       *)
(* classes Rotation and Rotations and the conversion functions between     *)
(* quaternions, rotation matrices and Euler angles.                        *)
(*                                                                         *)
(* Numbers.  The code computes in float64.  The model computes exactly in  *)
(* the field Q(sqrt 2): a number is a triple <<a, b, d>> standing for      *)
(* (a + b*sqrt(2)) / d, kept in lowest terms with d > 0, so that two       *)
(* numbers are equal exactly when their triples are equal.  The inputs are *)
(* drawn from values for which every square root the code takes is again   *)
(* in the field, so no rounding is modelled and a tolerance of the code    *)
(* (1e-4, 1e-5) is compared exactly.                                       *)
(*                                                                         *)
(* Arrays.  A numpy array is a record [shape, data]: data holds the        *)
(* elements in row-major order, so size = Len(data), ndim = Len(shape).    *)
(* Python's None is the record NoneValue for a value and the record        *)
(* NoneTag for a formalism.                                                *)
(*                                                                         *)
(* Formalism tags.  A formalism string is a record [none, head, axes]:     *)
(* the string is head followed by the letters of axes, where head is       *)
(* "euler_angles_" when the string starts with it (axes holding the rest,  *)
(* one letter per item) and the whole string otherwise (axes empty).       *)
(*                                                                         *)
(* Outcomes.  A call either returns or raises.  An operator that models a  *)
(* method returns a record [status, err, ...]: status "ok" with the value  *)
(* or the new state, or status "error" with the kind of the error.         *)
(***************************************************************************)
EXTENDS Integers, Sequences, FiniteSets, TLC

(***************************************************************************)
(* Exact arithmetic in Q(sqrt 2), standing for numpy's float64 arithmetic. *)
(***************************************************************************)
IAbs(n) == IF n < 0 THEN -n ELSE n

RECURSIVE GCD(_, _)
GCD(a, b) == IF b = 0 THEN a ELSE GCD(b, a % b)

\* (a + b*sqrt 2)/d divided through by g, with d > 0.
Reduced(a, b, d, g) ==
    IF d < 0 THEN <<(-a) \div g, (-b) \div g, (-d) \div g>>
    ELSE <<a \div g, b \div g, d \div g>>

\* (a + b*sqrt 2)/d in lowest terms, d > 0.
Num(a, b, d) == Reduced(a, b, d, GCD(GCD(IAbs(a), IAbs(b)), IAbs(d)))

Rat(a, d) == Num(a, 0, d)
Zero == <<0, 0, 1>>
One == <<1, 0, 1>>
Two == <<2, 0, 1>>
Half == <<1, 0, 2>>
\* sqrt(2)/2
HalfSqrt2 == <<0, 1, 2>>

Add(x, y) == Num(x[1] * y[3] + y[1] * x[3], x[2] * y[3] + y[2] * x[3], x[3] * y[3])
Neg(x) == <<-x[1], -x[2], x[3]>>
Sub(x, y) == Add(x, Neg(y))
Mul(x, y) == Num(x[1] * y[1] + 2 * x[2] * y[2], x[1] * y[2] + x[2] * y[1], x[3] * y[3])
Sq(x) == Mul(x, x)

\* The sign of a + b*sqrt 2: -1, 0 or 1.
Sign(x) ==
    LET a == x[1]
        b == x[2]
    IN  IF a = 0 /\ b = 0 THEN 0
        ELSE IF a >= 0 /\ b >= 0 THEN 1
        ELSE IF a <= 0 /\ b <= 0 THEN -1
        ELSE IF a > 0 THEN (IF a * a > 2 * b * b THEN 1 ELSE -1)
        ELSE (IF 2 * b * b > a * a THEN 1 ELSE -1)

Lt(x, y) == Sign(Sub(x, y)) < 0
Gt(x, y) == Sign(Sub(x, y)) > 0
Ge(x, y) == Sign(Sub(x, y)) >= 0
FAbs(x) == IF Sign(x) < 0 THEN Neg(x) ELSE x
FMax(x, y) == IF Lt(x, y) THEN y ELSE x

\* The integer square root of a perfect square n >= 0, and -1 for any other n.
ISqrt(n) ==
    IF \E s \in 0..n : s * s = n THEN CHOOSE s \in 0..n : s * s = n ELSE -1

\* The root of x = a/d from r = ISqrt(a*d) and t = ISqrt(2*a*d).
SqrtFrom(x, r, t) ==
    IF x[2] = 0 /\ x[1] >= 0 /\ r >= 0 THEN Num(r, 0, x[3])
    ELSE IF x[2] = 0 /\ x[1] >= 0 /\ t >= 0 THEN Num(0, t, 2 * x[3])
    ELSE CHOOSE y \in {} : TRUE

\* numpy.sqrt on the numbers r^2 and 2*r^2 (r rational), the only ones the
\* model takes a root of; any other argument stops the evaluation.
Sqrt(x) == SqrtFrom(x, ISqrt(x[1] * x[3]), ISqrt(2 * x[1] * x[3]))

\* numpy.copysign(x, y): the magnitude of x with the sign of y.  The y of the
\* code is a difference of two floats, which is +0.0 when they are equal.
CopySign(x, y) == IF Sign(y) < 0 THEN Neg(FAbs(x)) ELSE FAbs(x)

(***************************************************************************)
(* numpy arrays and Python's None.                                         *)
(***************************************************************************)
NoneValue == [shape |-> <<>>, data |-> <<>>]
NoneTag == [none |-> TRUE, head |-> "", axes |-> <<>>]
Tag(head) == [none |-> FALSE, head |-> head, axes |-> <<>>]
EulerTag(axes) == [none |-> FALSE, head |-> "euler_angles_", axes |-> axes]
IsNone(v) == v = NoneValue

Array(shape, data) == [shape |-> shape, data |-> data]
Vec(data) == Array(<<Len(data)>>, data)
Size(v) == Len(v.data)
Ndim(v) == Len(v.shape)

\* R[i, j] of a 3x3 array, i and j counted from 0 as in the code.
At(R, i, j) == R.data[3 * i + j + 1]
Mat3(rows) == Array(<<3, 3>>, rows[1] \o rows[2] \o rows[3])


(***************************************************************************)
(* Outcomes of a call.  log_and_raise_error (condor/utils/log.py) logs the *)
(* message and raises; the kind of the error is named after the message.   *)
(***************************************************************************)
Ok(v) == [status |-> "ok", err |-> "", value |-> v]
Raise(kind) == [status |-> "error", err |-> kind, value |-> NoneValue]
log_and_raise_error(kind) == Raise(kind)

(***************************************************************************)
(* Angles are counted in units of pi/4 (an integer k stands for k*pi/4),   *)
(* so that every sine and cosine the model takes is in Q(sqrt 2).          *)
(***************************************************************************)
Angle(k) == <<k, 0, 1>>
CosTable == <<One, HalfSqrt2, Zero, Neg(HalfSqrt2), Neg(One), Neg(HalfSqrt2), Zero, HalfSqrt2>>
Cos(t) == CosTable[(t[1] % 8) + 1]
Sin(t) == CosTable[((t[1] + 6) % 8) + 1]
\* 2*pi*x for a draw x in [0, 1) that is a multiple of 1/8.
TwoPiTimes(x) == Mul(Angle(8), x)

\* CANONIC ROTATION MATRICES
R_x(t) == Mat3(<< <<One, Zero, Zero>>,
                  <<Zero, Cos(t), Neg(Sin(t))>>,
                  <<Zero, Sin(t), Cos(t)>> >>)
\* R_y with the sign of the sine exchanged: a turn from x towards z.
R_y_lefthanded(t) == Mat3(<< <<Cos(t), Zero, Neg(Sin(t))>>,
                             <<Zero, One, Zero>>,
                             <<Sin(t), Zero, Cos(t)>> >>)
R_y(t) == Mat3(<< <<Cos(t), Zero, Sin(t)>>,
                  <<Zero, One, Zero>>,
                  <<Neg(Sin(t)), Zero, Cos(t)>> >>)
R_z(t) == Mat3(<< <<Cos(t), Neg(Sin(t)), Zero>>,
                  <<Sin(t), Cos(t), Zero>>,
                  <<Zero, Zero, One>> >>)

Identity3 == Mat3(<< <<One, Zero, Zero>>, <<Zero, One, Zero>>, <<Zero, Zero, One>> >>)
\* numpy.ones(shape=(3,3))
Ones33 == Array(<<3, 3>>, [n \in 1..9 |-> One])

\* The sum of f[1..n].
RECURSIVE SumTo(_, _)
SumTo(f, n) == IF n = 0 THEN Zero ELSE Add(SumTo(f, n - 1), f[n])

\* A.dot(B) for 3x3 arrays.
Dot33(A, B) ==
    Array(<<3, 3>>,
          [n \in 1..9 |->
              LET i == (n - 1) \div 3
                  j == (n - 1) % 3
              IN  SumTo([k \in 1..3 |-> Mul(At(A, i, k - 1), At(B, k - 1, j))], 3)])

\* R.dot(v) for a 3x3 array R and a sequence v of three numbers.
DotVec(R, v) ==
    [i \in 1..3 |-> SumTo([k \in 1..3 |-> Mul(At(R, i - 1, k - 1), v[k])], 3)]

\* R.T for a 3x3 array.
Transpose(R) ==
    Array(<<3, 3>>, [n \in 1..9 |-> At(R, (n - 1) % 3, (n - 1) \div 3)])

\* The loop of R_euler over zip(euler_angles, rotation_axes), from pair n on:
\* the first letter that is no axis raises.
RECURSIVE R_euler_loop(_, _, _, _)
R_euler_loop(R, angles, axes, n) ==
    LET last == IF Len(angles) < Len(axes) THEN Len(angles) ELSE Len(axes)
    IN  IF n > last THEN Ok(R)
        ELSE IF axes[n] = "x" THEN R_euler_loop(Dot33(R, R_x(angles[n])), angles, axes, n + 1)
        ELSE IF axes[n] = "y" THEN R_euler_loop(Dot33(R, R_y(angles[n])), angles, axes, n + 1)
        ELSE IF axes[n] = "z" THEN R_euler_loop(Dot33(R, R_z(angles[n])), angles, axes, n + 1)
        ELSE log_and_raise_error("InvalidAxisError")

\* R_euler(euler_angles, rotation_axes): euler_angles a 1-D array of angles,
\* rotation_axes a sequence of one-letter strings.
R_euler(euler_angles, rotation_axes) ==
    R_euler_loop(Identity3, euler_angles.data, rotation_axes, 1)

\* RANDOM ROTATION.  x is the result of numpy.random.random(3).
rand_quat(x) ==
    LET theta1 == TwoPiTimes(x[2])
        theta2 == TwoPiTimes(x[3])
        s1 == Sin(theta1)
        s2 == Sin(theta2)
        c1 == Cos(theta1)
        c2 == Cos(theta2)
        r1 == Sqrt(Sub(One, x[1]))
        r2 == Sqrt(x[1])
    IN  Vec(<<Mul(s1, r1), Mul(c1, r1), Mul(s2, r2), Mul(c2, r2)>>)

\* The matrix of rotmx_from_quat with w for w*z in its second entry.
Shoemake_odd(w, x, y, z) ==
    << Sub(One, Mul(Two, Add(Sq(y), Sq(z)))),
       Mul(Two, Sub(Mul(x, y), w)),
       Mul(Two, Add(Mul(x, z), Mul(w, y))),
       Mul(Two, Add(Mul(x, y), Mul(w, z))),
       Sub(One, Mul(Two, Add(Sq(x), Sq(z)))),
       Mul(Two, Sub(Mul(y, z), Mul(w, x))),
       Mul(Two, Sub(Mul(x, z), Mul(w, y))),
       Mul(Two, Add(Mul(y, z), Mul(w, x))),
       Sub(One, Mul(Two, Add(Sq(x), Sq(y)))) >>

\* The matrix of rotmx_from_quat from the four unpacked components.
Shoemake(w, x, y, z) ==
    << Sub(One, Mul(Two, Add(Sq(y), Sq(z)))),
       Mul(Two, Sub(Mul(x, y), Mul(w, z))),
       Mul(Two, Add(Mul(x, z), Mul(w, y))),
       Mul(Two, Add(Mul(x, y), Mul(w, z))),
       Sub(One, Mul(Two, Add(Sq(x), Sq(z)))),
       Mul(Two, Sub(Mul(y, z), Mul(w, x))),
       Mul(Two, Sub(Mul(x, z), Mul(w, y))),
       Mul(Two, Add(Mul(y, z), Mul(w, x))),
       Sub(One, Mul(Two, Add(Sq(x), Sq(y)))) >>

\* rotmx_from_quat(q).  "w,x,y,z = q" iterates over the first axis of q: it
\* raises unless that axis has length 4.  The items of a 1-D array are
\* numbers (the result is 3x3); the items of an array of shape (4,1) are
\* arrays of one element, and the result has shape (3,3,1).  Only arrays of
\* four elements are modelled.
rotmx_from_quat(q) ==
    IF Ndim(q) = 0 THEN Raise("TypeError")
    ELSE IF q.shape[1] # 4 THEN Raise("ValueError")
    ELSE IF Size(q) # 4 THEN CHOOSE r \in {} : TRUE
    ELSE Ok(Array(<<3, 3>> \o Tail(q.shape),
                  Shoemake(q.data[1], q.data[2], q.data[3], q.data[4])))

\* Quaternion from rotation matrix (R a 3x3 array).
quat_from_rotmx(R) ==
    LET q0 == Mul(Sqrt(FMax(Zero, Add(Add(Add(One, At(R, 0, 0)), At(R, 1, 1)), At(R, 2, 2)))), Half)
        q1 == Mul(Sqrt(FMax(Zero, Sub(Sub(Add(One, At(R, 0, 0)), At(R, 1, 1)), At(R, 2, 2)))), Half)
        q2 == Mul(Sqrt(FMax(Zero, Sub(Add(Sub(One, At(R, 0, 0)), At(R, 1, 1)), At(R, 2, 2)))), Half)
        q3 == Mul(Sqrt(FMax(Zero, Add(Sub(Sub(One, At(R, 0, 0)), At(R, 1, 1)), At(R, 2, 2)))), Half)
    IN  Vec(<< q0,
               CopySign(q1, Sub(At(R, 2, 1), At(R, 1, 2))),
               CopySign(q2, Sub(At(R, 0, 2), At(R, 2, 0))),
               CopySign(q3, Sub(At(R, 1, 0), At(R, 0, 1))) >>)

\* -q
NegArray(q) == Array(q.shape, [n \in 1..Size(q) |-> Neg(q.data[n])])

\* uniquify_quat that looks at w alone.
uniquify_quat_w(q) == IF Lt(q.data[1], Zero) THEN NegArray(q) ELSE q

uniquify_quat(q) ==
    IF Lt(q.data[1], Zero) THEN NegArray(q)
    ELSE IF q.data[1] = Zero /\ Lt(q.data[2], Zero) THEN NegArray(q)
    ELSE IF q.data[1] = Zero /\ q.data[2] = Zero /\ Lt(q.data[3], Zero) THEN NegArray(q)
    ELSE IF q.data[1] = Zero /\ q.data[2] = Zero /\ q.data[3] = Zero /\ Lt(q.data[4], Zero)
         THEN NegArray(q)
    ELSE q


(***************************************************************************)
(* Quaternion algebra.  Quaternions and vectors are sequences of numbers   *)
(* here (the data of a 1-D array).                                         *)
(***************************************************************************)
\* quat_mult with the signs of the cross terms exchanged: the product q2 q1.
quat_mult_commuted(q1, q2) ==
    LET w1 == q1[1]  x1 == q1[2]  y1 == q1[3]  z1 == q1[4]
        w2 == q2[1]  x2 == q2[2]  y2 == q2[3]  z2 == q2[4]
    IN  << Sub(Sub(Sub(Mul(w1, w2), Mul(x1, x2)), Mul(y1, y2)), Mul(z1, z2)),
           Add(Sub(Add(Mul(w1, x2), Mul(x1, w2)), Mul(y1, z2)), Mul(z1, y2)),
           Add(Sub(Add(Mul(w1, y2), Mul(y1, w2)), Mul(z1, x2)), Mul(x1, z2)),
           Add(Sub(Add(Mul(w1, z2), Mul(z1, w2)), Mul(x1, y2)), Mul(y1, x2)) >>

quat_mult(q1, q2) ==
    LET w1 == q1[1]  x1 == q1[2]  y1 == q1[3]  z1 == q1[4]
        w2 == q2[1]  x2 == q2[2]  y2 == q2[3]  z2 == q2[4]
    IN  << Sub(Sub(Sub(Mul(w1, w2), Mul(x1, x2)), Mul(y1, y2)), Mul(z1, z2)),
           Sub(Add(Add(Mul(w1, x2), Mul(x1, w2)), Mul(y1, z2)), Mul(z1, y2)),
           Sub(Add(Add(Mul(w1, y2), Mul(y1, w2)), Mul(z1, x2)), Mul(x1, z2)),
           Sub(Add(Add(Mul(w1, z2), Mul(z1, w2)), Mul(x1, y2)), Mul(y1, x2)) >>

\* quat_conj without the negation of the vector part.
quat_conj_copy(q) == q

quat_conj(q) == <<q[1], Neg(q[2]), Neg(q[3]), Neg(q[4])>>

quat_vec_mult(q, v) ==
    Tail(quat_mult(quat_mult(q, <<Zero, v[1], v[2], v[3]>>), quat_conj(q)))

rotate_quat(v, q) == quat_vec_mult(q, v)

\* linalg.dotproduct and linalg.crossproduct (condor/utils/linalg.py).
dotproduct(a, b) == Add(Add(Mul(a[1], b[1]), Mul(a[2], b[2])), Mul(a[3], b[3]))
crossproduct(a, b) ==
    << Sub(Mul(a[2], b[3]), Mul(a[3], b[2])),
       Sub(Mul(a[3], b[1]), Mul(a[1], b[3])),
       Sub(Mul(a[1], b[2]), Mul(a[2], b[1])) >>

(***************************************************************************)
(* Inverse trigonometric functions, in units of pi/4, on the arguments     *)
(* whose angle is a multiple of pi/4; any other argument stops the         *)
(* evaluation.  The model has one zero where a float has +0.0, -0.0 and    *)
(* the values that rounding leaves next to zero, so what the code computes *)
(* from the sign of a zero is not determined by the model's numbers: z     *)
(* holds these outcomes, z.atan being the angle arctan2 returns when both  *)
(* its arguments are zero (0 for a positive second argument, pi for a      *)
(* negative one) and z.sgn the value numpy.sign takes of a zero.           *)
(***************************************************************************)
ZeroChoices == {[atan |-> Angle(a), sgn |-> g] : a \in {0, 4}, g \in {0 - 1, 0, 1}}

ArcCos(v) ==
    CASE v = One -> Angle(0)
      [] v = HalfSqrt2 -> Angle(1)
      [] v = Zero -> Angle(2)
      [] v = Neg(HalfSqrt2) -> Angle(3)
      [] v = Neg(One) -> Angle(4)

ArcSin(v) == Sub(Angle(2), ArcCos(v))

ArcTan2(y, x, z) ==
    CASE Sign(y) = 0 /\ Sign(x) = 0 -> z.atan
      [] Sign(y) = 0 /\ Sign(x) > 0 -> Angle(0)
      [] Sign(y) = 0 /\ Sign(x) < 0 -> Angle(4)
      [] Sign(x) = 0 /\ Sign(y) > 0 -> Angle(2)
      [] Sign(x) = 0 /\ Sign(y) < 0 -> Angle(-2)
      [] Sign(x) > 0 /\ y = x -> Angle(1)
      [] Sign(x) < 0 /\ y = Neg(x) -> Angle(3)
      [] Sign(x) < 0 /\ y = x -> Angle(-3)
      [] Sign(x) > 0 /\ y = Neg(x) -> Angle(-1)

\* t/2 for an angle t that is a multiple of pi/2.
HalfAngle(t) == CASE t[1] % 2 = 0 -> Angle(t[1] \div 2)

\* The index of an axis letter: 0 for x, 1 for y, 2 for z, None for any other.
AxisIndex(s) == IF s = "x" THEN 0 ELSE IF s = "y" THEN 1 ELSE IF s = "z" THEN 2 ELSE -1

\* The unit vector of axis i (0, 1, 2).
UnitVec(i) == [k \in 1..3 |-> IF k = i + 1 THEN One ELSE Zero]

\* The four families of euler_from_quat, by the branch taken: 1 to 3 are the
\* three tested conditions, 4 is the else branch.
EulerFamily(i1, i2, i3) ==
    IF <<i1, i2, i3>> \in {<<0, 2, 0>>, <<1, 0, 1>>, <<2, 1, 2>>} THEN 1
    ELSE IF <<i1, i2, i3>> \in {<<0, 2, 1>>, <<1, 0, 2>>, <<2, 1, 0>>} THEN 2
    ELSE IF <<i1, i2, i3>> \in {<<0, 1, 0>>, <<1, 2, 1>>, <<2, 0, 2>>} THEN 3
    ELSE 4

\* e0 of euler_from_quat in family fam, from a = v3r[(i1+1)%3], b = v3r[(i1+2)%3].
Euler_e0(fam, a, b, z) ==
    IF fam \in {1, 2} THEN ArcTan2(b, a, z)
    ELSE IF fam = 3 THEN ArcTan2(a, Neg(b), z)
    ELSE ArcTan2(Neg(a), b, z)

\* e1 of euler_from_quat in family fam, from c = v3r[i1].
Euler_e1(fam, c) ==
    IF fam \in {1, 3} THEN ArcCos(c)
    ELSE IF fam = 2 THEN Neg(ArcSin(c))
    ELSE ArcSin(c)

\* The quaternion [cos(h), 0, 0, 0] with sin(h) at place 1+i, h being half the angle.
AxisQuat(h, i) ==
    [k \in 1..4 |-> IF k = 1 THEN Cos(h) ELSE IF k = 2 + i THEN Sin(h) ELSE Zero]

\* e2 of euler_from_quat from v3n12, v3nG and v3r.
Euler_sign(m, z) == IF Sign(m) = 0 THEN z.sgn ELSE Sign(m)
Euler_e2(v3n12, v3nG, v3r, z) ==
    Mul(Angle(Euler_sign(dotproduct(crossproduct(v3n12, v3nG), v3r), z)),
        ArcCos(dotproduct(v3n12, v3nG)))

\* euler_from_quat from line 636 on: e0, e1 and v3r are known.
Euler_tail(q, i1, i2, i3, v3r, e0, e1, z) ==
    Vec(<< e0, e1,
           Euler_e2(quat_vec_mult(quat_mult(AxisQuat(HalfAngle(e0), i1),
                                            AxisQuat(HalfAngle(e1), i2)),
                                  UnitVec((i3 + 1) % 3)),
                    quat_vec_mult(q, UnitVec((i3 + 1) % 3)),
                    v3r, z) >>)

\* euler_from_quat from line 615 on: the indices and v3r are known.
Euler_branch(q, i1, i2, i3, v3r, z) ==
    Euler_tail(q, i1, i2, i3, v3r,
               Euler_e0(EulerFamily(i1, i2, i3), v3r[((i1 + 1) % 3) + 1], v3r[((i1 + 2) % 3) + 1], z),
               Euler_e1(EulerFamily(i1, i2, i3), v3r[i1 + 1]), z)

\* euler_from_quat from line 612 on: the indices of the three axes are known.
Euler_indexed(q, i1, i2, i3, z) ==
    Euler_branch(q, i1, i2, i3, rotate_quat(UnitVec(i3), q), z)

\* The angles of euler_from_quat once rotation_axes passed the two checks
\* (q a sequence of four numbers).
EulerAngles(q, rotation_axes, z) ==
    Euler_indexed(q, AxisIndex(rotation_axes[1]), AxisIndex(rotation_axes[2]),
                  AxisIndex(rotation_axes[3]), z)

\* euler_from_quat(q, rotation_axes): on a rotation_axes that fails a check the
\* code prints a message and returns None.
euler_from_quat(q, rotation_axes, z) ==
    IF Len(rotation_axes) # 3 THEN Ok(NoneValue)
    ELSE IF \E n \in 1..3 : rotation_axes[n] \notin {"x", "y", "z"} THEN Ok(NoneValue)
    ELSE Ok(EulerAngles(q.data, rotation_axes, z))

(***************************************************************************)
(* class Rotation.  The state of a Rotation is its rotation_matrix; a      *)
(* method that sets it returns the outcome whose value is the new matrix,  *)
(* and a method that raises leaves the matrix as it was.  A draw d is what *)
(* numpy's random generator hands out during the call: d.u for             *)
(* numpy.random.rand() and d.x for numpy.random.random(3).                 *)
(***************************************************************************)
tol_unitary == Rat(1, 10000)

set_with_euler_angles(euler_angles, rotation_axes) ==
    IF IsNone(euler_angles) THEN Raise("AttributeError")
    ELSE IF Size(euler_angles) # 3 THEN log_and_raise_error("ShapeError")
    ELSE R_euler(euler_angles, rotation_axes)

\* I[i,i] for I = M.dot(M.T), M of shape (rows, cols).
GramDiag(M, i) ==
    LET cols == M.shape[2]
    IN  SumTo([k \in 1..cols |-> Sq(M.data[i * cols + k])], cols)

\* The loop "for i in range(3)" of set_with_rotation_matrix, from i on.
RECURSIVE UnitaryCheck(_, _)
UnitaryCheck(M, i) ==
    IF i = 3 THEN Ok(M)
    ELSE IF i >= M.shape[1] THEN Raise("IndexError")
    ELSE IF Gt(FAbs(Sub(GramDiag(M, i), One)), tol_unitary)
         THEN log_and_raise_error("NotOrthogonalError")
    ELSE UnitaryCheck(M, i + 1)

set_with_rotation_matrix(rotation_matrix) ==
    IF IsNone(rotation_matrix) THEN Raise("AttributeError")
    ELSE IF Size(rotation_matrix) # 9 \/ Ndim(rotation_matrix) # 2
         THEN log_and_raise_error("ShapeError")
    ELSE UnitaryCheck(rotation_matrix, 0)

set_with_quaternion(quaternion) ==
    IF IsNone(quaternion) THEN Raise("AttributeError")
    ELSE IF Size(quaternion) # 4 THEN log_and_raise_error("ShapeError")
    ELSE rotmx_from_quat(quaternion)

set_as_random(d) == rotmx_from_quat(rand_quat(d.x)).value
set_as_random_x(d) == R_x(TwoPiTimes(d.u))
set_as_random_y(d) == R_y(TwoPiTimes(d.u))
set_as_random_z(d) == R_z(TwoPiTimes(d.u))

RandomTags == {Tag("random"), Tag("random_x"), Tag("random_y"), Tag("random_z")}

\* The new rotation_matrix of a Rotation holding self_matrix.
set_as_random_formalism(self_matrix, formalism, d) ==
    IF formalism = Tag("random") THEN set_as_random(d)
    ELSE IF formalism = Tag("random_x") THEN set_as_random_x(d)
    ELSE IF formalism = Tag("random_y") THEN set_as_random_y(d)
    ELSE IF formalism = Tag("random_z") THEN set_as_random_z(d)
    ELSE self_matrix

\* formalism.startswith("euler_angles_") and len(formalism) == len("euler_angles_xyz")
IsEulerTag(formalism) == formalism.head = "euler_angles_" /\ Len(formalism.axes) = 3

\* Rotation(values, formalism): the outcome, whose value is the matrix of the
\* new Rotation.  formalism.startswith raises on None.
Rotation_init(values, formalism, d) ==
    IF IsNone(values) /\ formalism.none THEN Ok(Ones33)
    ELSE IF formalism.none THEN Raise("AttributeError")
    ELSE IF IsEulerTag(formalism) THEN set_with_euler_angles(values, formalism.axes)
    ELSE IF formalism = Tag("rotation_matrix") THEN set_with_rotation_matrix(values)
    ELSE IF formalism = Tag("quaternion") THEN set_with_quaternion(values)
    ELSE IF formalism \in RandomTags THEN Ok(set_as_random_formalism(NoneValue, formalism, d))
    ELSE log_and_raise_error("UnknownFormalismError")

get_as_rotation_matrix(self_matrix) == self_matrix

get_as_quaternion(self_matrix, uniquify) ==
    IF uniquify THEN uniquify_quat(quat_from_rotmx(self_matrix))
    ELSE quat_from_rotmx(self_matrix)

\* rotate_vector(vector, order): vector an array, order a string.  The dot
\* product of a matrix of shape (3,3,1) with a vector of three raises.
rotate_vector(self_matrix, vector, order) ==
    IF Size(vector) # 3 \/ Ndim(vector) # 1 THEN log_and_raise_error("ShapeError")
    ELSE IF order \in {"xyz", "zyx"} /\ self_matrix.shape # <<3, 3>> THEN Raise("ValueError")
    ELSE IF order = "xyz" THEN Ok(Vec(DotVec(self_matrix, vector.data)))
    ELSE IF order = "zyx"
         THEN Ok(Vec(DotVec(self_matrix, <<vector.data[3], vector.data[2], vector.data[1]>>)))
    ELSE log_and_raise_error("InvalidOrderError")

get_as_euler_angles(self_matrix, rotation_axes, z) ==
    euler_from_quat(get_as_quaternion(self_matrix, FALSE), rotation_axes, z)

\* invert(): the quaternion of the matrix, its vector part negated in place,
\* is set again.  The outcome holds the quaternion set and the new matrix.
invert_quat(self_matrix) == Vec(quat_conj(get_as_quaternion(self_matrix, FALSE).data))
invert(self_matrix) == set_with_quaternion(invert_quat(self_matrix))

\* is_similar(rotation, tol): both objects after the call and the value
\* returned.  With err = sqrt(sum) and 0 < tol < 1/10, err < tol is false
\* for a sum of 1/100 or more and is decided as sum < tol and sum/tol < tol
\* below it, which is sum < tol^2 with every product in the range of the
\* model's integers.
tol_similar == Rat(1, 100000)
SumSqDiff(p, q) == SumTo([k \in 1..4 |-> Sq(Sub(p.data[k], q.data[k]))], 4)
RootBelow(sum, tol) ==
    IF Lt(tol, Rat(1, 10)) /\ Ge(sum, Rat(1, 100)) THEN FALSE
    ELSE Lt(sum, tol) /\ Lt(Mul(sum, Rat(tol[3], tol[1])), tol)
is_similar_inverting(self_matrix, rotation_matrix, tol) ==
    [self |-> invert(self_matrix).value, rotation |-> rotation_matrix,
     ret |-> RootBelow(SumSqDiff(get_as_quaternion(self_matrix, TRUE),
                                 get_as_quaternion(rotation_matrix, TRUE)), tol)]
is_similar(self_matrix, rotation_matrix, tol) ==
    [self |-> self_matrix, rotation |-> rotation_matrix,
     ret |-> RootBelow(SumSqDiff(get_as_quaternion(self_matrix, TRUE),
                                 get_as_quaternion(rotation_matrix, TRUE)), tol)]

\* rotate_vectors(vectors, order): vectors an array of N numbers, rotated
\* three by three.
Reverse3(v) == <<v[3], v[2], v[1]>>
Triple(vectors, i) == SubSeq(vectors.data, 3 * i + 1, 3 * i + 3)
RECURSIVE Rotated(_, _, _, _)
Rotated(self_matrix, vectors, zyx, n) ==
    IF n = 0 THEN <<>>
    ELSE Rotated(self_matrix, vectors, zyx, n - 1)
         \o (IF zyx THEN Reverse3(DotVec(self_matrix, Reverse3(Triple(vectors, n - 1))))
             ELSE DotVec(self_matrix, Triple(vectors, n - 1)))
StackOf(data) == IF Len(data) = 0 THEN Vec(data) ELSE Array(<<Len(data) \div 3, 3>>, data)
rotate_vectors(self_matrix, vectors, order) ==
    IF Ndim(vectors) # 2 /\ Ndim(vectors) # 1 THEN log_and_raise_error("ShapeError")
    ELSE IF Ndim(vectors) = 2 /\ vectors.shape[2] # 3 THEN log_and_raise_error("ShapeError")
    ELSE IF Ndim(vectors) = 1 /\ Size(vectors) % 3 # 0 THEN log_and_raise_error("ShapeError")
    ELSE IF order = "xyz" THEN Ok(StackOf(Rotated(self_matrix, vectors, FALSE, Size(vectors) \div 3)))
    ELSE IF order = "zyx" THEN Ok(StackOf(Rotated(self_matrix, vectors, TRUE, Size(vectors) \div 3)))
    ELSE log_and_raise_error("InvalidOrderError")

(***************************************************************************)
(* class Rotations.  An object is the record [formalism, i, values,        *)
(* rotations], rotations being the list of the matrices of its Rotation    *)
(* objects.  A method returns [status, err, self, ret]: the object after   *)
(* the call and, for a returned Rotation, its place in self.rotations      *)
(* (the code returns a reference to the list's item, not a copy).          *)
(***************************************************************************)
MOk(self, ret) == [status |-> "ok", err |-> "", self |-> self, ret |-> ret]
MRaise(self, kind) == [status |-> "error", err |-> kind, self |-> self, ret |-> 0]

\* values[i] (i counted from 0) of an array of at least one dimension.
SubArray(values, i) ==
    LET stride == Size(values) \div values.shape[1]
    IN  Array(Tail(values.shape), SubSeq(values.data, i * stride + 1, (i + 1) * stride))

\* The decision "single" of Rotations.__init__.
Rotations_single(values, formalism) ==
    IF IsNone(values) /\ formalism.none THEN Ok(TRUE)
    ELSE IF formalism.none THEN Raise("AttributeError")
    ELSE IF IsEulerTag(formalism)
         THEN (IF IsNone(values) THEN Raise("AttributeError") ELSE Ok(Ndim(values) = 1))
    ELSE IF formalism = Tag("rotation_matrix")
         THEN (IF IsNone(values) THEN Raise("AttributeError") ELSE Ok(Ndim(values) = 2))
    ELSE IF formalism = Tag("quaternion")
         THEN (IF IsNone(values) THEN Raise("AttributeError") ELSE Ok(Ndim(values) = 1))
    ELSE IF formalism \in RandomTags THEN Ok(TRUE)
    ELSE log_and_raise_error("UnknownFormalismError")

\* The loop "for i in range(len(values))" of Rotations.__init__, from i on,
\* rotations being the list built so far: the first Rotation that cannot be
\* built raises.
RECURSIVE Rotations_loop(_, _, _, _, _)
\* One pass of the loop: r is the outcome of Rotation(values[i], formalism).
Rotations_append(values, formalism, d, i, rotations, r) ==
    IF r.status = "error" THEN r
    ELSE Rotations_loop(values, formalism, d, i + 1, Append(rotations, r.value))

Rotations_loop(values, formalism, d, i, rotations) ==
    IF i = values.shape[1] THEN Ok(rotations)
    ELSE Rotations_append(values, formalism, d, i, rotations,
                          Rotation_init(SubArray(values, i), formalism, d))

\* A list of the one Rotation whose construction ended as r.
Rotations_one(r) == IF r.status = "error" THEN r ELSE Ok(<<r.value>>)

\* "Initialise rotations": the outcome whose value is the list self._rotations.
Rotations_list(values, formalism, d, single) ==
    IF single
    THEN (IF IsNone(values) THEN Rotations_one(Rotation_init(NoneValue, NoneTag, d))
          ELSE Rotations_one(Rotation_init(values, formalism, d)))
    ELSE IF Ndim(values) = 0 THEN Raise("TypeError")
    ELSE Rotations_loop(values, formalism, d, 0, <<>>)

\* The new object once its list was built (or was not).
Rotations_object(values, formalism, list) ==
    IF list.status = "error" THEN list
    ELSE Ok([formalism |-> formalism, i |-> 0, values |-> values,
             rotations |-> list.value])

\* Rotations.__init__ once "single" is decided (or raised).
Rotations_build(values, formalism, d, single) ==
    IF single.status = "error" THEN single
    ELSE Rotations_object(values, formalism,
                          Rotations_list(values, formalism, d, single.value))

\* Rotations(values, formalism): the outcome, whose value is the new object.
Rotations_init(values, formalism, d) ==
    Rotations_build(values, formalism, d, Rotations_single(values, formalism))

\* Mutant of get_current_rotation: the cursor moves on.
get_current_rotation_advancing(self) ==
    IF Len(self.rotations) = 0 THEN MRaise(self, "ZeroDivisionError")
    ELSE MOk([self EXCEPT !.i = @ + 1], (self.i % Len(self.rotations)) + 1)

get_current_rotation(self) ==
    IF Len(self.rotations) = 0 THEN MRaise(self, "ZeroDivisionError")
    ELSE MOk(self, (self.i % Len(self.rotations)) + 1)

\* Mutant of get_next_rotation_advance: the cursor stays.
get_next_rotation_no_advance(rotation) ==
    IF rotation.status = "error" THEN rotation
    ELSE MOk(rotation.self, rotation.ret)

\* Lines 328 and 329: rotation is the outcome of get_current_rotation().
get_next_rotation_advance(rotation) ==
    IF rotation.status = "error" THEN rotation
    ELSE MOk([rotation.self EXCEPT !.i = @ + 1], rotation.ret)

\* Mutant of get_next_rotation_redraw: no redraw.
get_next_rotation_no_redraw(self, d) == self

\* Lines 325 and 326: the object after the redraw of a random formalism.
get_next_rotation_redraw(self, d) ==
    IF self.formalism \in RandomTags
    THEN [self EXCEPT !.rotations[1] = set_as_random_formalism(@, self.formalism, d)]
    ELSE self

get_next_rotation(self, d) ==
    IF self.formalism \in RandomTags /\ Len(self.rotations) = 0
    THEN MRaise(self, "IndexError")
    ELSE get_next_rotation_advance(get_current_rotation(get_next_rotation_redraw(self, d)))

(***************************************************************************)
(* State.                                                                  *)
(*   seq     a Rotations object: [constructed, err, obj]                   *)
(*   ncalls  the number of get_next_rotation() calls that returned         *)
(*   last    the last call on seq: its name, the name of the call before   *)
(*           it, its outcome, the place and the matrix of the Rotation it  *)
(*           returned, and the draw of the latest get_next_rotation()      *)
(*   rot     a Rotation object: [exists, rotation_matrix], with the        *)
(*           arguments it was constructed with                             *)
(*   res     the last call on rot (or of its constructor) with its         *)
(*           arguments and its outcome                                     *)
(*   cv      a conversion under way: its input and the values computed     *)
(*   other   a second Rotation object, the argument of is_similar          *)
(*   heap    the numpy arrays the caller of a Rotation and the Rotation    *)
(*           hold: [arrays, self, arg, ret], arrays being the list of the  *)
(*           array objects and self, arg, ret places in it (0 for none):   *)
(*           the Rotation's matrix, the array passed to the constructor    *)
(*           and the array last returned by get_as_rotation_matrix()       *)
(*   workers the threads that call get_next_rotation() on seq: the holder  *)
(*           of the callers' lock (0 for none) and, for each thread, its   *)
(*           position in the call, the place it looked up and the cursor   *)
(*           value it loaded                                               *)
(***************************************************************************)
VARIABLES seq, ncalls, last, rot, res, cv, other, heap, workers

seqVars == <<seq, ncalls, last>>
rotVars == <<rot, res>>
convVars == <<cv>>
useVars == <<other, heap, workers>>
vars == <<seq, ncalls, last, rot, res, cv, other, heap, workers>>

(***************************************************************************)
(* Bounds and input sets.                                                  *)
(***************************************************************************)
\* get_next_rotation() is called at most MaxCalls times.
MaxCalls == 7

NoDraw == [u |-> Zero, x |-> <<>>]
\* What the random generator hands out during one call.
Draws ==
    { [u |-> Zero, x |-> <<Zero, Zero, Zero>>],
      [u |-> Rat(1, 8), x |-> <<Half, Rat(1, 8), Rat(3, 8)>>],
      [u |-> Rat(1, 4), x |-> <<Half, Rat(1, 4), Half>>],
      [u |-> Rat(5, 8), x |-> <<Zero, Rat(3, 4), Zero>>] }

\* Quaternions, matrices and Euler angles used as values.
QuatA == <<One, Zero, Zero, Zero>>
QuatB == <<HalfSqrt2, HalfSqrt2, Zero, Zero>>
QuatC == <<Half, Half, Half, Neg(Half)>>
EulerA == <<Angle(2), Angle(1), Angle(0)>>
EulerB == <<Angle(0), Angle(2), Angle(4)>>
EulerC == <<Angle(7), Angle(3), Angle(2)>>

\* The arguments (values, formalism) a Rotations is constructed with.
SeqInputs ==
    { [values |-> NoneValue, formalism |-> NoneTag],
      [values |-> Vec(QuatB), formalism |-> Tag("quaternion")],
      [values |-> Array(<<1, 4>>, QuatC), formalism |-> Tag("quaternion")],
      [values |-> Array(<<2, 4>>, QuatB \o QuatC), formalism |-> Tag("quaternion")],
      [values |-> Array(<<3, 4>>, QuatA \o QuatB \o QuatC), formalism |-> Tag("quaternion")],
      [values |-> Array(<<0, 4>>, <<>>), formalism |-> Tag("quaternion")],
      [values |-> Array(<<2, 3, 3>>, R_x(Angle(2)).data \o R_z(Angle(1)).data),
       formalism |-> Tag("rotation_matrix")],
      [values |-> Array(<<3, 3>>, EulerA \o EulerB \o EulerC),
       formalism |-> EulerTag(<<"z", "x", "z">>)],
      [values |-> Array(<<2, 3>>, EulerA \o EulerC),
       formalism |-> EulerTag(<<"x", "y", "z">>)],
      [values |-> NoneValue, formalism |-> Tag("random")],
      [values |-> NoneValue, formalism |-> Tag("random_x")],
      [values |-> NoneValue, formalism |-> Tag("random_y")],
      [values |-> NoneValue, formalism |-> Tag("random_z")],
      [values |-> Vec(QuatA), formalism |-> Tag("random_z")],
      [values |-> Array(<<2, 4>>, QuatB \o QuatC), formalism |-> Tag("foo")],
      [values |-> Array(<<2, 4>>, QuatB \o QuatC), formalism |-> NoneTag],
      [values |-> Array(<<2, 5>>, QuatB \o QuatC \o <<One, One>>),
       formalism |-> Tag("quaternion")] }

NoSeq == [formalism |-> NoneTag, i |-> 0, values |-> NoneValue, rotations |-> <<>>]
NoLast == [op |-> "init", prev |-> "none", status |-> "ok", err |-> "",
           idx |-> 0, matrix |-> NoneValue, draw |-> NoDraw]
NoRot == [exists |-> FALSE, rotation_matrix |-> NoneValue,
          values |-> NoneValue, formalism |-> NoneTag]
NoRes == [op |-> "none"]
NoConv == [pc |-> "idle"]
NoHeap == [arrays |-> <<>>, self |-> 0, arg |-> 0, ret |-> 0]
NoWorkers == [lock |-> 0, pc |-> <<>>, ret |-> <<>>, tmp |-> <<>>]

(***************************************************************************)
(* The Rotations machine: a Rotations is constructed, then                 *)
(* get_next_rotation() and get_current_rotation() are called in any order. *)
(***************************************************************************)
SeqInit ==
    /\ \E inp \in SeqInputs, d \in Draws :
          \E out \in {Rotations_init(inp.values, inp.formalism, d)} :
             seq = [constructed |-> out.status = "ok", err |-> out.err,
                    obj |-> IF out.status = "ok" THEN out.value ELSE NoSeq]
    /\ ncalls = 0
    /\ last = NoLast

\* What a call that ended as r leaves in last.
LastOf(op, r, draw) ==
    [op |-> op, prev |-> last.op, status |-> r.status, err |-> r.err, idx |-> r.ret,
     matrix |-> IF r.status = "ok" THEN r.self.rotations[r.ret] ELSE NoneValue,
     draw |-> draw]

GetNextRotation ==
    /\ seq.constructed
    /\ ncalls < MaxCalls
    /\ \E d \in Draws :
          \E r \in {get_next_rotation(seq.obj, d)} :
             /\ seq' = [seq EXCEPT !.obj = r.self]
             /\ ncalls' = IF r.status = "ok" THEN ncalls + 1 ELSE ncalls
             /\ last' = LastOf("next", r,
                               IF seq.obj.formalism \in RandomTags THEN d ELSE last.draw)
    /\ UNCHANGED <<rot, res, cv, other, heap, workers>>

GetCurrentRotation ==
    /\ seq.constructed
    /\ \E r \in {get_current_rotation(seq.obj)} :
          /\ seq' = [seq EXCEPT !.obj = r.self]
          /\ last' = LastOf("current", r, last.draw)
    /\ UNCHANGED <<ncalls, rot, res, cv, other, heap, workers>>

Init ==
    /\ SeqInit
    /\ rot = NoRot
    /\ res = NoRes
    /\ cv = NoConv
    /\ other = NoRot
    /\ heap = NoHeap
    /\ workers = NoWorkers

Next ==
    \/ GetNextRotation
    \/ GetCurrentRotation

Spec == Init /\ [][Next]_vars

(***************************************************************************)
(* The Rotation machine: a Rotation is constructed, and the Rotation       *)
(* constructed is asked to rotate vectors and for its Euler angles.        *)
(***************************************************************************)
Axes == {"x", "y", "z"}
\* The 27 three-letter sequences over x, y, z.
AxisTriples == {<<a, b, c>> : a \in Axes, b \in Axes, c \in Axes}

\* 3x3 arrays given as a rotation matrix.
MatUnitRows == Mat3(<< <<One, Zero, Zero>>, <<One, Zero, Zero>>, <<Zero, Zero, One>> >>)
MatReflection == Mat3(<< <<One, Zero, Zero>>, <<Zero, One, Zero>>, <<Zero, Zero, Neg(One)>> >>)
MatScaled == Mat3(<< <<Two, Zero, Zero>>, <<Zero, Two, Zero>>, <<Zero, Zero, Two>> >>)
MatSheared == Mat3(<< <<One, Zero, Zero>>, <<Zero, One, Zero>>, <<Half, Zero, One>> >>)
MatrixValues ==
    { Identity3, R_x(Angle(2)), R_y(Angle(1)), R_z(Angle(5)), Ones33,
      MatUnitRows, MatReflection, MatScaled, MatSheared }

\* The arguments (values, formalism) a Rotation is constructed with.
RotInputs ==
    { [values |-> NoneValue, formalism |-> NoneTag] }
    \cup { [values |-> v, formalism |-> Tag("quaternion")] :
             v \in { Vec(QuatA), Vec(QuatB), Vec(QuatC),
                     Vec(QuatA \o <<Zero>>), Vec(<<One, Zero, Zero>>),
                     Array(<<2, 2>>, QuatA), Array(<<4, 1>>, QuatB),
                     Array(<<1, 4>>, QuatC), NoneValue } }
    \cup { [values |-> v, formalism |-> Tag("rotation_matrix")] :
             v \in MatrixValues \cup { Vec(Identity3.data), Array(<<2, 2>>, QuatA) } }
    \cup { [values |-> Vec(EulerA), formalism |-> EulerTag(ax)] : ax \in AxisTriples }
    \cup { [values |-> Vec(EulerB), formalism |-> EulerTag(ax)] :
             ax \in { <<"z", "x", "z">>, <<"x", "y", "z">>, <<"z", "z", "x">> } }
    \cup { [values |-> v, formalism |-> EulerTag(<<"z", "x", "z">>)] :
             v \in { Vec(QuatA), NoneValue } }
    \cup { [values |-> Vec(EulerA), formalism |-> t] :
             t \in { EulerTag(<<"a", "b", "c">>), EulerTag(<<"x", "y", "a">>),
                     EulerTag(<<"x", "y">>), EulerTag(<<"x", "y", "z", "x">>),
                     Tag("euler_angles"), Tag("foo"), NoneTag } }
    \cup { [values |-> v, formalism |-> t] :
             v \in {NoneValue, Vec(QuatA)}, t \in RandomTags }

\* The vectors and orders rotate_vector is called with.
VectorValues ==
    { Vec(<<One, Zero, Zero>>), Vec(<<One, Two, Neg(Half)>>),
      Vec(QuatA), Array(<<3, 1>>, <<One, Zero, Zero>>) }
Orders == {"xyz", "zyx", "yxz"}

\* The axes Euler angles are asked for.
AxesArgs ==
    { <<"z", "x", "z">>, <<"x", "y", "z">>, <<"z", "z", "x">>, <<"z", "z", "z">>,
      <<"x", "y">>, <<"x", "y", "z", "x">>, <<"x", "y", "a">>, <<>> }

\* The determinant of a 3x3 array.
Det3(M) ==
    Add(Sub(Mul(At(M, 0, 0), Sub(Mul(At(M, 1, 1), At(M, 2, 2)), Mul(At(M, 1, 2), At(M, 2, 1)))),
            Mul(At(M, 0, 1), Sub(Mul(At(M, 1, 0), At(M, 2, 2)), Mul(At(M, 1, 2), At(M, 2, 0))))),
        Mul(At(M, 0, 2), Sub(Mul(At(M, 1, 0), At(M, 2, 1)), Mul(At(M, 1, 1), At(M, 2, 0)))))

\* M is a rotation matrix: a 3x3 array with M.M^T = I and determinant +1.
IsRotationMatrix(M) ==
    /\ M.shape = <<3, 3>>
    /\ Dot33(M, Transpose(M)) = Identity3
    /\ Det3(M) = One

\* M is one of the 24 rotation matrices whose entries are 0, 1 and -1: the
\* rotations whose Euler angles are multiples of pi/2.
IsCubeRotation(M) ==
    /\ IsRotationMatrix(M)
    /\ \A n \in 1..9 : M.data[n] \in {Zero, One, Neg(One)}

RotInit ==
    /\ rot = NoRot
    /\ res = NoRes

\* Rotation(values, formalism): on an error no object is returned.
Construct ==
    /\ res = NoRes
    /\ \E inp \in RotInputs, d \in Draws :
       \E out \in {Rotation_init(inp.values, inp.formalism, d)} :
          /\ rot' = IF out.status = "ok"
                    THEN [exists |-> TRUE, rotation_matrix |-> out.value,
                          values |-> inp.values, formalism |-> inp.formalism]
                    ELSE NoRot
          /\ res' = [op |-> "Rotation", values |-> inp.values, formalism |-> inp.formalism,
                     status |-> out.status, err |-> out.err, value |-> out.value]
          /\ UNCHANGED <<seq, ncalls, last, cv, other, heap, workers>>

RotateVector ==
    /\ rot.exists
    /\ \E v \in VectorValues, order \in Orders :
          \E out \in {rotate_vector(rot.rotation_matrix, v, order)} :
             res' = [op |-> "rotate_vector", vector |-> v, order |-> order,
                     status |-> out.status, err |-> out.err, value |-> out.value]
    /\ UNCHANGED <<rot, seq, ncalls, last, cv, other, heap, workers>>

GetAsEulerAngles ==
    /\ rot.exists
    /\ IsCubeRotation(rot.rotation_matrix)
    /\ \E axes \in AxesArgs, z \in ZeroChoices :
          \E out \in {get_as_euler_angles(rot.rotation_matrix, axes, z)} :
             res' = [op |-> "get_as_euler_angles", rotation_axes |-> axes,
                     status |-> out.status, err |-> out.err, value |-> out.value]
    /\ UNCHANGED <<rot, seq, ncalls, last, cv, other, heap, workers>>

InitRotation ==
    /\ RotInit
    /\ seq = [constructed |-> FALSE, err |-> "", obj |-> NoSeq]
    /\ ncalls = 0
    /\ last = NoLast
    /\ cv = NoConv
    /\ other = NoRot
    /\ heap = NoHeap
    /\ workers = NoWorkers

NextRotation ==
    \/ Construct
    \/ RotateVector
    \/ GetAsEulerAngles

SpecRotation == InitRotation /\ [][NextRotation]_vars

(***************************************************************************)
(* The conversion machine: a unit quaternion is converted to its rotation  *)
(* matrix, the matrix back to a quaternion, and both quaternions are       *)
(* brought to their unique representation; or the quaternion is converted  *)
(* to Euler angles.                                                        *)
(***************************************************************************)
QuatComponents ==
    { Zero, One, Neg(One), Half, Neg(Half), HalfSqrt2, Neg(HalfSqrt2),
      Rat(3, 5), Rat(0 - 3, 5), Rat(4, 5), Rat(0 - 4, 5) }

SqNorm(w, x, y, z) == Add(Add(Sq(w), Sq(x)), Add(Sq(y), Sq(z)))

\* The quaternions of norm 1 with these components.
UnitQuats ==
    { q \in { <<w, x, y, z>> : w \in QuatComponents, x \in QuatComponents,
                               y \in QuatComponents, z \in QuatComponents } :
        SqNorm(q[1], q[2], q[3], q[4]) = One }

ConvState(pc, q, R, q2, u, u2) ==
    [pc |-> pc, q |-> q, R |-> R, q2 |-> q2, u |-> u, u2 |-> u2,
     rotation_axes |-> <<>>, status |-> "", err |-> "", value |-> NoneValue]

ConvInit == \E q \in UnitQuats :
    cv = ConvState("start", Vec(q), NoneValue, NoneValue, NoneValue, NoneValue)

RotmxFromQuat ==
    /\ cv.pc = "start"
    /\ \E out \in {rotmx_from_quat(cv.q)} :
          cv' = ConvState("matrix", cv.q, out.value, NoneValue, NoneValue, NoneValue)
    /\ UNCHANGED <<seq, ncalls, last, rot, res, other, heap, workers>>

QuatFromRotmx ==
    /\ cv.pc = "matrix"
    /\ cv' = ConvState("quat", cv.q, cv.R, quat_from_rotmx(cv.R), NoneValue, NoneValue)
    /\ UNCHANGED <<seq, ncalls, last, rot, res, other, heap, workers>>

UniquifyQuat ==
    /\ cv.pc = "quat"
    /\ cv' = ConvState("unique", cv.q, cv.R, cv.q2, uniquify_quat(cv.q), uniquify_quat(cv.q2))
    /\ UNCHANGED <<seq, ncalls, last, rot, res, other, heap, workers>>

\* euler_from_quat(q, rotation_axes), for the quaternions of the 24 rotations
\* whose Euler angles are multiples of pi/2.
EulerFromQuat ==
    /\ cv.pc = "start"
    /\ IsCubeRotation(rotmx_from_quat(cv.q).value)
    /\ \E axes \in AxesArgs, z \in ZeroChoices :
          \E out \in {euler_from_quat(cv.q, axes, z)} :
             cv' = [cv EXCEPT !.pc = "euler", !.rotation_axes = axes,
                              !.status = out.status, !.err = out.err, !.value = out.value]
    /\ UNCHANGED <<seq, ncalls, last, rot, res, other, heap, workers>>

InitConv ==
    /\ ConvInit
    /\ seq = [constructed |-> FALSE, err |-> "", obj |-> NoSeq]
    /\ ncalls = 0
    /\ last = NoLast
    /\ rot = NoRot
    /\ res = NoRes
    /\ other = NoRot
    /\ heap = NoHeap
    /\ workers = NoWorkers

NextConv ==
    \/ RotmxFromQuat
    \/ QuatFromRotmx
    \/ UniquifyQuat
    \/ EulerFromQuat

SpecConv == InitConv /\ [][NextConv]_vars

(***************************************************************************)
(* The Euler machine: three angles and a supported axis sequence are made  *)
(* into the matrix R0, R0 into a quaternion, the quaternion into Euler     *)
(* angles for the same axes, and these angles into the matrix R1.          *)
(***************************************************************************)
\* The twelve axis sequences of the test.
TestedAxes == {ax \in AxisTriples : ax[1] # ax[2] /\ ax[2] # ax[3]}

\* e0 and e2 in [0, 2*pi) and e1 in [0, pi), in steps of pi/2.
TestedAngles ==
    {<<Angle(a), Angle(b), Angle(c)>> : a \in {0, 2, 4, 6}, b \in {0, 2}, c \in {0, 2, 4, 6}}

EulerState(pc, ax, euler0, R0, q0, euler1, R1) ==
    [pc |-> pc, rotation_axes |-> ax, euler0 |-> euler0, R0 |-> R0, q0 |-> q0,
     euler1 |-> euler1, R1 |-> R1]

EulerInit == \E ax \in TestedAxes, e \in TestedAngles :
    cv = EulerState("start", ax, Vec(e), NoneValue, NoneValue, NoneValue, NoneValue)

BuildR0 ==
    /\ cv.pc = "start"
    /\ cv' = [cv EXCEPT !.pc = "matrix", !.R0 = R_euler(cv.euler0, cv.rotation_axes).value]
    /\ UNCHANGED <<seq, ncalls, last, rot, res, other, heap, workers>>

QuatOfR0 ==
    /\ cv.pc = "matrix"
    /\ cv' = [cv EXCEPT !.pc = "quat", !.q0 = uniquify_quat(quat_from_rotmx(cv.R0))]
    /\ UNCHANGED <<seq, ncalls, last, rot, res, other, heap, workers>>

EulerOfQuat ==
    /\ cv.pc = "quat"
    /\ \E z \in ZeroChoices :
          cv' = [cv EXCEPT !.pc = "euler",
                           !.euler1 = euler_from_quat(cv.q0, cv.rotation_axes, z).value]
    /\ UNCHANGED <<seq, ncalls, last, rot, res, other, heap, workers>>

BuildR1 ==
    /\ cv.pc = "euler"
    /\ cv' = [cv EXCEPT !.pc = "rebuilt", !.R1 = R_euler(cv.euler1, cv.rotation_axes).value]
    /\ UNCHANGED <<seq, ncalls, last, rot, res, other, heap, workers>>

InitEuler ==
    /\ EulerInit
    /\ seq = [constructed |-> FALSE, err |-> "", obj |-> NoSeq]
    /\ ncalls = 0
    /\ last = NoLast
    /\ rot = NoRot
    /\ res = NoRes
    /\ other = NoRot
    /\ heap = NoHeap
    /\ workers = NoWorkers

NextEuler ==
    \/ BuildR0
    \/ QuatOfR0
    \/ EulerOfQuat
    \/ BuildR1

SpecEuler == InitEuler /\ [][NextEuler]_vars

(***************************************************************************)
(* The pair machine: two Rotations are constructed from quaternions, and   *)
(* the methods of the first are called in any order, is_similar in both    *)
(* directions.                                                             *)
(***************************************************************************)
\* Unit quaternions, each with its negative: the identity, a quarter turn,
\* a third of a turn, a rotation by another angle, and half turns (w = 0)
\* about an axis whose components have both signs.
PairBase ==
    { QuatA, QuatB, QuatC, <<Rat(3, 5), Rat(4, 5), Zero, Zero>>,
      <<Zero, HalfSqrt2, Neg(HalfSqrt2), Zero>>, <<Zero, Rat(3, 5), Rat(0 - 4, 5), Zero>> }
PairQuats == PairBase \cup {NegArray(Vec(q)).data : q \in PairBase}

\* The arrays rotate_vectors is called with.
VectorsValues ==
    { Array(<<1, 3>>, <<One, Two, Neg(Half)>>),
      Array(<<2, 3>>, <<One, Zero, Zero, One, Two, Neg(Half)>>),
      Vec(<<One, Two, Neg(Half)>>), Vec(QuatA), Array(<<3, 1>>, <<One, Zero, Zero>>),
      Array(<<1, 1, 3>>, <<One, Zero, Zero>>) }

\* A Rotation as the machine holds it: its matrix and the arguments it was
\* last set with.
RotationOf(out, values, formalism) ==
    IF out.status = "ok"
    THEN [exists |-> TRUE, rotation_matrix |-> out.value, values |-> values, formalism |-> formalism]
    ELSE NoRot

\* Rotation(q, 'quaternion') and a second Rotation, from -q or from QuatB.
ConstructPair ==
    /\ res = NoRes
    /\ \E q \in PairQuats, negated \in BOOLEAN :
          /\ rot' = RotationOf(Rotation_init(Vec(q), Tag("quaternion"), NoDraw),
                               Vec(q), Tag("quaternion"))
          /\ other' = IF negated
                      THEN RotationOf(Rotation_init(NegArray(Vec(q)), Tag("quaternion"), NoDraw),
                                      NegArray(Vec(q)), Tag("quaternion"))
                      ELSE RotationOf(Rotation_init(Vec(QuatB), Tag("quaternion"), NoDraw),
                                      Vec(QuatB), Tag("quaternion"))
          /\ res' = [op |-> "Rotation", values |-> Vec(q), formalism |-> Tag("quaternion"),
                     status |-> "ok", err |-> "", value |-> NoneValue]
    /\ UNCHANGED <<seq, ncalls, last, cv, heap, workers>>

GetAsQuaternion ==
    /\ rot.exists
    /\ \E uniquify \in BOOLEAN :
          res' = [op |-> "get_as_quaternion", uniquify |-> uniquify, status |-> "ok",
                  err |-> "", value |-> get_as_quaternion(rot.rotation_matrix, uniquify)]
    /\ UNCHANGED <<rot, other, seq, ncalls, last, cv, heap, workers>>

GetAsRotationMatrix ==
    /\ rot.exists
    /\ res' = [op |-> "get_as_rotation_matrix", status |-> "ok", err |-> "",
               value |-> get_as_rotation_matrix(rot.rotation_matrix)]
    /\ UNCHANGED <<rot, other, seq, ncalls, last, cv, heap, workers>>

RotateVectors ==
    /\ rot.exists
    /\ \E v \in VectorsValues, order \in Orders :
          \E out \in {rotate_vectors(rot.rotation_matrix, v, order)} :
             res' = [op |-> "rotate_vectors", vectors |-> v, order |-> order,
                     status |-> out.status, err |-> out.err, value |-> out.value]
    /\ UNCHANGED <<rot, other, seq, ncalls, last, cv, heap, workers>>

\* get_as_euler_angles() with its default rotation_axes, 'zxz'.
GetAsEulerAnglesDefault ==
    /\ rot.exists
    /\ IsCubeRotation(rot.rotation_matrix)
    /\ \E z \in ZeroChoices :
          \E out \in {get_as_euler_angles(rot.rotation_matrix, <<"z", "x", "z">>, z)} :
             res' = [op |-> "get_as_euler_angles", rotation_axes |-> <<"z", "x", "z">>,
                     status |-> out.status, err |-> out.err, value |-> out.value]
    /\ UNCHANGED <<rot, other, seq, ncalls, last, cv, heap, workers>>

\* rot.is_similar(other) and other.is_similar(rot).
IsSimilar ==
    /\ rot.exists
    /\ other.exists
    /\ \/ \E r \in {is_similar(rot.rotation_matrix, other.rotation_matrix, tol_similar)} :
             /\ rot' = [rot EXCEPT !.rotation_matrix = r.self]
             /\ other' = [other EXCEPT !.rotation_matrix = r.rotation]
             /\ res' = [op |-> "is_similar", receiver |-> "rot", status |-> "ok", err |-> "",
                        value |-> r.ret]
       \/ \E r \in {is_similar(other.rotation_matrix, rot.rotation_matrix, tol_similar)} :
             /\ other' = [other EXCEPT !.rotation_matrix = r.self]
             /\ rot' = [rot EXCEPT !.rotation_matrix = r.rotation]
             /\ res' = [op |-> "is_similar", receiver |-> "other", status |-> "ok", err |-> "",
                        value |-> r.ret]
    /\ UNCHANGED <<seq, ncalls, last, cv, heap, workers>>

\* invert(): the Rotation is set with the quaternion invert passes on.
Invert ==
    /\ rot.exists
    /\ \E out \in {invert(rot.rotation_matrix)} :
          /\ rot' = [rot EXCEPT !.rotation_matrix = out.value,
                                !.values = invert_quat(rot.rotation_matrix),
                                !.formalism = Tag("quaternion")]
          /\ res' = [op |-> "invert", before |-> rot.rotation_matrix,
                     twice |-> (res.op = "invert"),
                     first |-> IF res.op = "invert" THEN res.before ELSE NoneValue,
                     status |-> out.status, err |-> out.err, value |-> out.value]
    /\ UNCHANGED <<other, seq, ncalls, last, cv, heap, workers>>

InitPair ==
    /\ rot = NoRot
    /\ other = NoRot
    /\ res = NoRes
    /\ seq = [constructed |-> FALSE, err |-> "", obj |-> NoSeq]
    /\ ncalls = 0
    /\ last = NoLast
    /\ cv = NoConv
    /\ heap = NoHeap
    /\ workers = NoWorkers

NextPair ==
    \/ ConstructPair
    \/ RotateVector
    \/ RotateVectors
    \/ GetAsQuaternion
    \/ GetAsRotationMatrix
    \/ GetAsEulerAnglesDefault
    \/ IsSimilar
    \/ Invert

SpecPair == InitPair /\ [][NextPair]_vars

(***************************************************************************)
(* The axis-rotation tests: a Rotation about one axis, built from a        *)
(* quaternion, from a matrix or from Euler angles, rotates the unit vector *)
(* of the next axis.                                                       *)
(***************************************************************************)
\* quat(theta, ux, uy, uz), the quaternion of the angle theta about (ux, uy, uz).
quat(theta, ux, uy, uz) ==
    <<Cos(HalfAngle(theta)), Mul(Sin(HalfAngle(theta)), ux),
      Mul(Sin(HalfAngle(theta)), uy), Mul(Sin(HalfAngle(theta)), uz)>>

\* [R_x(angle), R_y(angle), R_z(angle)]
AxisRotations(angle) == <<R_x(angle), R_y(angle), R_z(angle)>>

\* The angles of the tests in units of pi/4; the half angle of the quaternion
\* needs an even one.
AxisAngles == 0..7
AxisAnglesEven == {0, 2, 4, 6}

\* The sequences that repeat the axis i_rot, as <<first, second>>.
RepeatedAxes(i_rot) ==
    CASE i_rot = 0 -> {<<"x", "y", "x">>, <<"x", "z", "x">>}
      [] i_rot = 1 -> {<<"y", "x", "y">>, <<"y", "z", "y">>}
      [] i_rot = 2 -> {<<"z", "x", "z">>, <<"z", "y", "z">>}

AxisState(pc, i_rot, angle, route) ==
    [pc |-> pc, i_rot |-> i_rot, angle |-> angle, route |-> route]

\* _test_quat: R = Rotation(values=quaternion, formalism="quaternion")
TestQuat ==
    /\ cv.pc # "built"
    /\ \E i_rot \in 0..2, angle \in AxisAnglesEven :
          \E q \in {quat(Angle(angle), UnitVec(i_rot)[1], UnitVec(i_rot)[2],
                         UnitVec(i_rot)[3])} :
             /\ rot' = RotationOf(Rotation_init(Vec(q), Tag("quaternion"), NoDraw),
                                  Vec(q), Tag("quaternion"))
             /\ cv' = AxisState("built", i_rot, angle, "quaternion")
    /\ res' = NoRes
    /\ UNCHANGED <<seq, ncalls, last, other, heap, workers>>

\* _test_rotation_matrix: R = Rotation(values=R_a(angle), formalism="rotation_matrix")
TestRotationMatrix ==
    /\ cv.pc # "built"
    /\ \E i_rot \in 0..2, angle \in AxisAngles :
          \E m \in {AxisRotations(Angle(angle))[i_rot + 1]} :
             /\ rot' = RotationOf(Rotation_init(m, Tag("rotation_matrix"), NoDraw),
                                  m, Tag("rotation_matrix"))
             /\ cv' = AxisState("built", i_rot, angle, "rotation_matrix")
    /\ res' = NoRes
    /\ UNCHANGED <<seq, ncalls, last, other, heap, workers>>

\* _test_euler_angles: R = Rotation(values=[angle, 0, 0], formalism="euler_angles_aba")
TestEulerAngles ==
    /\ cv.pc # "built"
    /\ \E i_rot \in 0..2, angle \in AxisAngles :
          \E axes \in RepeatedAxes(i_rot) :
             \E e \in {Vec(<<Angle(angle), Zero, Zero>>)} :
                /\ rot' = RotationOf(Rotation_init(e, EulerTag(axes), NoDraw),
                                     e, EulerTag(axes))
                /\ cv' = AxisState("built", i_rot, angle, "euler_angles")
    /\ res' = NoRes
    /\ UNCHANGED <<seq, ncalls, last, other, heap, workers>>

\* test_v[(i_rot+1)%3] = 1.; test_v_rot = R.rotate_vector(test_v)
TestRotate ==
    /\ cv.pc = "built"
    /\ rot.exists
    /\ \E v \in {Vec(UnitVec((cv.i_rot + 1) % 3))} :
          \E out \in {rotate_vector(rot.rotation_matrix, v, "xyz")} :
             res' = [op |-> "rotate_vector", vector |-> v, order |-> "xyz",
                     status |-> out.status, err |-> out.err, value |-> out.value]
    /\ cv' = [cv EXCEPT !.pc = "rotated"]
    /\ UNCHANGED <<rot, seq, ncalls, last, other, heap, workers>>

InitAxis ==
    /\ cv = NoConv
    /\ rot = NoRot
    /\ res = NoRes
    /\ other = NoRot
    /\ seq = [constructed |-> FALSE, err |-> "", obj |-> NoSeq]
    /\ ncalls = 0
    /\ last = NoLast
    /\ heap = NoHeap
    /\ workers = NoWorkers

NextAxis ==
    \/ TestQuat
    \/ TestRotationMatrix
    \/ TestEulerAngles
    \/ TestRotate

SpecAxis == InitAxis /\ [][NextAxis]_vars

(***************************************************************************)
(* Storage: the arrays of the program as a heap of addresses, so that a    *)
(* write of the caller through one reference is seen through every other   *)
(* reference to the same array.  heap.arg is the array the caller passed   *)
(* to the constructor, heap.self is self.rotation_matrix and heap.ret is   *)
(* the array get_as_rotation_matrix returned last.                         *)
(***************************************************************************)
MaxArrays == 4

\* a[...] without a copy: the same address, no new array.
ndarray_view(arrays, a) == [arrays |-> arrays, addr |-> a]

\* a.copy(): a new array with the contents of the array at address a.
ndarray_copy(arrays, a) == [arrays |-> Append(arrays, arrays[a]), addr |-> Len(arrays) + 1]

StorageMatrices == {Identity3, R_z(Angle(2)), R_x(Angle(1))}
WriteCells == {1, 6}
WriteValues == {Zero, Two}

\* Rotation(values=m, formalism="rotation_matrix") with m an array of the caller:
\* set_with_rotation_matrix ends with self.rotation_matrix = rotation_matrix.copy()
StorageConstruct ==
    /\ heap.self = 0
    /\ \E m \in StorageMatrices :
          \E out \in {Rotation_init(m, Tag("rotation_matrix"), NoDraw)} :
             \E c \in {ndarray_copy(<<m>>, 1)} :
                /\ out.status = "ok"
                /\ heap' = [arrays |-> c.arrays, self |-> c.addr, arg |-> 1, ret |-> 0]
                /\ rot' = RotationOf(out, m, Tag("rotation_matrix"))
    /\ UNCHANGED <<res, seq, ncalls, last, cv, other, workers>>

\* return self.rotation_matrix.copy()
StorageGet ==
    /\ heap.self # 0
    /\ Len(heap.arrays) < MaxArrays
    /\ \E c \in {ndarray_copy(heap.arrays, heap.self)} :
          heap' = [heap EXCEPT !.arrays = c.arrays, !.ret = c.addr]
    /\ UNCHANGED <<rot, res, seq, ncalls, last, cv, other, workers>>

\* The caller assigns to an element of the array it passed to the constructor.
WriteArg ==
    /\ heap.arg # 0
    /\ \E k \in WriteCells, x \in WriteValues :
          heap' = [heap EXCEPT !.arrays[heap.arg].data[k] = x]
    /\ UNCHANGED <<rot, res, seq, ncalls, last, cv, other, workers>>

\* The caller assigns to an element of the array get_as_rotation_matrix returned.
WriteRet ==
    /\ heap.ret # 0
    /\ \E k \in WriteCells, x \in WriteValues :
          heap' = [heap EXCEPT !.arrays[heap.ret].data[k] = x]
    /\ UNCHANGED <<rot, res, seq, ncalls, last, cv, other, workers>>

\* rotate_vector on the stored matrix.
StorageRotate ==
    /\ heap.self # 0
    /\ \E v \in {Vec(<<One, Two, Neg(Half)>>)} :
          \E out \in {rotate_vector(heap.arrays[heap.self], v, "xyz")} :
             res' = [op |-> "rotate_vector", vector |-> v, order |-> "xyz",
                     status |-> out.status, err |-> out.err, value |-> out.value]
    /\ UNCHANGED <<rot, heap, seq, ncalls, last, cv, other, workers>>

InitStorage ==
    /\ heap = NoHeap
    /\ workers = NoWorkers
    /\ rot = NoRot
    /\ res = NoRes
    /\ other = NoRot
    /\ cv = NoConv
    /\ seq = [constructed |-> FALSE, err |-> "", obj |-> NoSeq]
    /\ ncalls = 0
    /\ last = NoLast

NextStorage ==
    \/ StorageConstruct
    \/ StorageGet
    \/ WriteArg
    \/ WriteRet
    \/ StorageRotate

SpecStorage == InitStorage /\ [][NextStorage]_vars

(***************************************************************************)
(* The quaternion helpers as functions of their arguments: norm_quat,      *)
(* uniquify_quat and rand_quat, each called from any state.                *)
(***************************************************************************)
\* linalg.length(v), the Euclidean length.
length(v) == Sqrt(SumTo([k \in 1..Len(v) |-> Sq(v[k])], Len(v)))

\* norm_quat(q, tolerance): the first branch reads q_norm before any
\* assignment to it; the second returns q.copy().
norm_quat(q, tolerance) ==
    IF Gt(FAbs(Sub(length(q.data), One)), tolerance) THEN Raise("UnboundLocalError")
    ELSE Ok(q)

\* Quaternions with components -1, 0 and 1, the zero quaternion among them.
QuatInputs ==
    { <<w, x, y, z>> : w \in {Neg(One), Zero, One}, x \in {Neg(One), Zero, One},
                       y \in {Neg(One), Zero, One}, z \in {Neg(One), Zero, One} }

\* The nonzero quaternions given to norm_quat, of length 1 or 2.
NormInputs ==
    {q \in QuatInputs : SqNorm(q[1], q[2], q[3], q[4]) \in {One, Add(Two, Two)}}
        \cup {QuatB, <<Rat(6, 5), Rat(8, 5), Zero, Zero>>}

\* The default tolerance and one wider than every deviation tried.
Tolerances == {Rat(1, 100000), Two}

\* The three draws of rand_quat: x0 with rational roots of x0 and 1-x0 (or
\* rational multiples of sqrt 2), x1 and x2 in eighths.
QuatDraws ==
    { <<x0, x1, x2>> : x0 \in {Zero, Half, Rat(9, 25), Rat(16, 25)},
                       x1 \in {Zero, Rat(1, 8), Rat(3, 8), Rat(3, 4)},
                       x2 \in {Zero, Rat(1, 8), Rat(1, 2), Rat(7, 8)} }

\* q_norm = norm_quat(q, tolerance), then norm_quat of the result.
NormQuat ==
    /\ \E q \in NormInputs, tolerance \in Tolerances :
          \E out \in {norm_quat(Vec(q), tolerance)} :
             cv' = [pc |-> "norm_quat", q |-> Vec(q), tolerance |-> tolerance, out |-> out,
                    again |-> IF out.status = "ok" THEN norm_quat(out.value, tolerance)
                              ELSE out]
    /\ UNCHANGED <<seq, ncalls, last, rot, res, other, heap, workers>>

\* uniquify_quat of q, of -q and of its own result.
UniquifyAny ==
    /\ \E q \in QuatInputs \cup PairQuats :
          \E u \in {uniquify_quat(Vec(q))} :
             cv' = [pc |-> "uniquify_quat", q |-> Vec(q), u |-> u,
                    u_neg |-> uniquify_quat(NegArray(Vec(q))), uu |-> uniquify_quat(u)]
    /\ UNCHANGED <<seq, ncalls, last, rot, res, other, heap, workers>>

\* q = rand_quat() with the draws x0, x1, x2.
RandQuat ==
    /\ \E x \in QuatDraws :
          cv' = [pc |-> "rand_quat", x |-> x, q |-> rand_quat(x)]
    /\ UNCHANGED <<seq, ncalls, last, rot, res, other, heap, workers>>

InitQuat ==
    /\ cv = NoConv
    /\ rot = NoRot
    /\ res = NoRes
    /\ other = NoRot
    /\ seq = [constructed |-> FALSE, err |-> "", obj |-> NoSeq]
    /\ ncalls = 0
    /\ last = NoLast
    /\ heap = NoHeap
    /\ workers = NoWorkers

NextQuat ==
    \/ NormQuat
    \/ UniquifyAny
    \/ RandQuat

SpecQuat == InitQuat /\ [][NextQuat]_vars

(***************************************************************************)
(* Threads sharing one Rotations with a fixed list.  Each thread calls     *)
(* get_next_rotation() while holding the callers' lock; the call itself is *)
(* taken step by step: the look-up of line 327, then the load and the      *)
(* store of "self._i += 1" (line 328), then the return.                    *)
(***************************************************************************)
NumWorkers == 2
Workers == 1..NumWorkers

\* The arguments that construct a list of two or more Rotations.
WorkerInputs ==
    { inp \in SeqInputs :
         \E out \in {Rotations_init(inp.values, inp.formalism, NoDraw)} :
            out.status = "ok" /\ Len(out.value.rotations) >= 2 }

\* rotation = self.get_current_rotation(): the place of the Rotation returned.
cursor_lookup(self) == get_current_rotation(get_next_rotation_redraw(self, NoDraw)).ret

\* The store of "self._i += 1" without the addition.
cursor_store_stale(self, tmp) == [self EXCEPT !.i = tmp]

\* The store of "self._i += 1", tmp being the value of self._i loaded before.
cursor_store(self, tmp) == [self EXCEPT !.i = tmp + 1]

\* The lock is free, so the caller may enter get_next_rotation().
lock_free(w) == workers.lock = 0

WorkersInit ==
    /\ \E inp \in WorkerInputs :
          seq = [constructed |-> TRUE, err |-> "",
                 obj |-> Rotations_init(inp.values, inp.formalism, NoDraw).value]
    /\ ncalls = 0
    /\ last = NoLast
    /\ workers = [lock |-> 0, pc |-> [w \in Workers |-> "idle"],
                  ret |-> [w \in Workers |-> 0], tmp |-> [w \in Workers |-> 0],
                  done |-> [w \in Workers |-> 0]]

\* The number of calls begun and not yet returned.
InCall == Cardinality({w \in Workers : workers.pc[w] # "idle"})

WorkerAcquire(w) ==
    /\ workers.pc[w] = "idle"
    /\ lock_free(w)
    /\ ncalls + InCall < MaxCalls
    /\ workers' = [workers EXCEPT !.lock = w, !.pc[w] = "called"]
    /\ UNCHANGED <<seq, ncalls, last, rot, res, cv, other, heap>>

WorkerLookup(w) ==
    /\ workers.pc[w] = "called"
    /\ workers' = [workers EXCEPT !.ret[w] = cursor_lookup(seq.obj), !.pc[w] = "looked"]
    /\ UNCHANGED <<seq, ncalls, last, rot, res, cv, other, heap>>

WorkerLoad(w) ==
    /\ workers.pc[w] = "looked"
    /\ workers' = [workers EXCEPT !.tmp[w] = seq.obj.i, !.pc[w] = "loaded"]
    /\ UNCHANGED <<seq, ncalls, last, rot, res, cv, other, heap>>

WorkerStore(w) ==
    /\ workers.pc[w] = "loaded"
    /\ seq' = [seq EXCEPT !.obj = cursor_store(seq.obj, workers.tmp[w])]
    /\ workers' = [workers EXCEPT !.pc[w] = "stored"]
    /\ UNCHANGED <<ncalls, last, rot, res, cv, other, heap>>

\* return rotation, and the caller releases the lock.
WorkerReturn(w) ==
    /\ workers.pc[w] = "stored"
    /\ ncalls' = ncalls + 1
    /\ last' = LastOf("next", MOk(seq.obj, workers.ret[w]), last.draw)
    /\ workers' = [workers EXCEPT !.pc[w] = "idle", !.done[w] = @ + 1,
                                  !.lock = IF @ = w THEN 0 ELSE @]
    /\ UNCHANGED <<seq, rot, res, cv, other, heap>>

InitWorkers ==
    /\ WorkersInit
    /\ rot = NoRot
    /\ res = NoRes
    /\ cv = NoConv
    /\ other = NoRot
    /\ heap = NoHeap

NextWorkers ==
    \E w \in Workers :
       \/ WorkerAcquire(w)
       \/ WorkerLookup(w)
       \/ WorkerLoad(w)
       \/ WorkerStore(w)
       \/ WorkerReturn(w)

SpecWorkers == InitWorkers /\ [][NextWorkers]_vars

(***************************************************************************)
(* The quaternion algebra as functions of their arguments: a vector        *)
(* rotated by rotate_quat and by the matrix of rotmx_from_quat, and the    *)
(* products of three quaternions.                                          *)
(***************************************************************************)
AlgebraVectors ==
    { <<One, Zero, Zero>>, <<Zero, One, Zero>>, <<One, Two, Neg(Half)>> }

\* The unit quaternions that rotate: those of the pair machine, with half
\* turns among them, and some with three and four nonzero components.
AlgebraQuats ==
    PairQuats \cup
    { <<Half, Neg(Half), Half, Half>>, <<Zero, Zero, HalfSqrt2, Neg(HalfSqrt2)>>,
      <<HalfSqrt2, Half, Neg(Half), Zero>>, <<Zero, Half, Half, HalfSqrt2>>,
      <<Rat(3, 5), Zero, Zero, Rat(0 - 4, 5)>>, <<Half, Rat(1, 2), Neg(HalfSqrt2), Zero>> }

\* The quaternions multiplied: 1, i, j, k, two unit quaternions with several
\* components and one that is not of unit length.
MultQuats ==
    { QuatA, <<Zero, One, Zero, Zero>>, <<Zero, Zero, One, Zero>>,
      <<Zero, Zero, Zero, One>>, QuatB, QuatC, <<One, Two, Neg(One), Half>> }

\* The caller picks the arguments of the next call.
ChooseRotation ==
    /\ cv.pc \notin {"rotate_args", "mult_args"}
    /\ \E q \in AlgebraQuats, v \in AlgebraVectors :
          cv' = [pc |-> "rotate_args", q |-> q, v |-> v]
    /\ UNCHANGED <<seq, ncalls, last, rot, res, other, heap, workers>>

ChooseProduct ==
    /\ cv.pc \notin {"rotate_args", "mult_args"}
    /\ \E q1 \in MultQuats, q2 \in MultQuats, q3 \in MultQuats :
          cv' = [pc |-> "mult_args", q1 |-> q1, q2 |-> q2, q3 |-> q3]
    /\ UNCHANGED <<seq, ncalls, last, rot, res, other, heap, workers>>

\* rotate_quat(v, q) and rotmx_from_quat(q).dot(v) for the same q and v.
RotateBothWays ==
    /\ cv.pc = "rotate_args"
    /\ cv' = [pc |-> "rotate_quat", q |-> cv.q, v |-> cv.v,
              by_quat |-> rotate_quat(cv.v, cv.q),
              by_matrix |-> DotVec(rotmx_from_quat(Vec(cv.q)).value, cv.v)]
    /\ UNCHANGED <<seq, ncalls, last, rot, res, other, heap, workers>>

\* The products of q1, q2, q3 in both orders and groupings, and of the
\* conjugates.
QuatMult ==
    /\ cv.pc = "mult_args"
    /\ \E p12 \in {quat_mult(cv.q1, cv.q2)} :
          cv' = [pc |-> "quat_mult", q1 |-> cv.q1, q2 |-> cv.q2, q3 |-> cv.q3,
                 p12 |-> p12, p21 |-> quat_mult(cv.q2, cv.q1),
                 p12_3 |-> quat_mult(p12, cv.q3),
                 p1_23 |-> quat_mult(cv.q1, quat_mult(cv.q2, cv.q3)),
                 one_q1 |-> quat_mult(QuatA, cv.q1), q1_one |-> quat_mult(cv.q1, QuatA),
                 conj_p12 |-> quat_conj(p12),
                 conj2_conj1 |-> quat_mult(quat_conj(cv.q2), quat_conj(cv.q1))]
    /\ UNCHANGED <<seq, ncalls, last, rot, res, other, heap, workers>>

InitAlgebra ==
    /\ cv = NoConv
    /\ rot = NoRot
    /\ res = NoRes
    /\ other = NoRot
    /\ seq = [constructed |-> FALSE, err |-> "", obj |-> NoSeq]
    /\ ncalls = 0
    /\ last = NoLast
    /\ heap = NoHeap
    /\ workers = NoWorkers

NextAlgebra ==
    \/ ChooseRotation
    \/ ChooseProduct
    \/ RotateBothWays
    \/ QuatMult

SpecAlgebra == InitAlgebra /\ [][NextAlgebra]_vars

(***************************************************************************)
(* The branches of euler_from_quat (lines 609 to 635): for three axis      *)
(* letters and a quaternion, the branch taken and the e0 and e1 it         *)
(* computes.                                                               *)
(***************************************************************************)
\* Quaternions of rotations that map the axes to axes.
FamilyQuats ==
    { QuatA, QuatB, QuatC, <<HalfSqrt2, Zero, HalfSqrt2, Zero>>,
      <<HalfSqrt2, Zero, Zero, Neg(HalfSqrt2)>>, <<Zero, Zero, One, Zero>> }

\* The state after line 635: family is the branch taken, 1 to 3 for the
\* three tested ones and 4 for the final else.
FamilyState(q, rotation_axes, z, i1, i2, i3, v3r) ==
    [pc |-> "classified", q |-> q, rotation_axes |-> rotation_axes, z |-> z,
     i1 |-> i1, i2 |-> i2, i3 |-> i3, v3r |-> v3r,
     family |-> EulerFamily(i1, i2, i3),
     e0 |-> Euler_e0(EulerFamily(i1, i2, i3), v3r[((i1 + 1) % 3) + 1],
                     v3r[((i1 + 2) % 3) + 1], z),
     e1 |-> Euler_e1(EulerFamily(i1, i2, i3), v3r[i1 + 1])]

\* The caller picks the arguments of the next call; z is what arctan2 will
\* give at (0, 0).
ChooseAxes ==
    /\ cv.pc # "axes"
    /\ \E q \in FamilyQuats, rotation_axes \in AxisTriples,
          z \in {c \in ZeroChoices : c.sgn = 0} :
          cv' = [pc |-> "axes", q |-> q, rotation_axes |-> rotation_axes, z |-> z]
    /\ UNCHANGED <<seq, ncalls, last, rot, res, other, heap, workers>>

\* euler_from_quat(q, rotation_axes) up to line 635, for three letters of xyz.
EulerClassify ==
    /\ cv.pc = "axes"
    /\ \E i3 \in {AxisIndex(cv.rotation_axes[3])} :
          cv' = FamilyState(cv.q, cv.rotation_axes, cv.z, AxisIndex(cv.rotation_axes[1]),
                            AxisIndex(cv.rotation_axes[2]), i3,
                            rotate_quat(UnitVec(i3), cv.q))
    /\ UNCHANGED <<seq, ncalls, last, rot, res, other, heap, workers>>

InitFamily ==
    /\ cv = NoConv
    /\ rot = NoRot
    /\ res = NoRes
    /\ other = NoRot
    /\ seq = [constructed |-> FALSE, err |-> "", obj |-> NoSeq]
    /\ ncalls = 0
    /\ last = NoLast
    /\ heap = NoHeap
    /\ workers = NoWorkers

NextFamily ==
    \/ ChooseAxes
    \/ EulerClassify

SpecFamily == InitFamily /\ [][NextFamily]_vars

(***************************************************************************)
(* norm_euler_repax as a function of its argument, the angles being        *)
(* multiples of pi/4.                                                      *)
(***************************************************************************)
\* t % twopi, for t a multiple of pi/4: in [0, 2 pi).
AngleMod(t) == Angle(t[1] % 8)

\* euler = euler % twopi
norm_euler_mod(e) == [k \in 1..3 |-> AngleMod(e[k])]

\* if euler[1] >= pi: the three assignments of lines 673 to 675.
norm_euler_flip(e) ==
    IF Ge(e[2], Angle(4))
    THEN <<AngleMod(Add(e[1], Angle(4))), Sub(Angle(8), e[2]), AngleMod(Add(e[3], Angle(4)))>>
    ELSE e

\* if abs(euler[0]+euler[2]-twopi) < resolution: for multiples of pi/4 the
\* sum is 2 pi or is not.
norm_euler_collapse(e) ==
    IF Add(e[1], e[3]) = Angle(8) THEN <<Angle(0), e[2], Angle(0)>> ELSE e

norm_euler_repax(euler) ==
    Vec(norm_euler_collapse(norm_euler_flip(norm_euler_mod(euler.data))))

\* The sequences with a repeated axis.
RepaxAxes == {ax \in AxisTriples : ax[1] # ax[2] /\ ax[1] = ax[3]}

\* Angle triples on both sides of 0, pi and 2 pi.
RepaxAngles ==
    { <<Angle(a), Angle(b), Angle(c)>> :
         a \in {0 - 1, 0, 2, 4, 6, 7, 9},
         b \in {0 - 4, 0 - 2, 0 - 1, 0, 1, 2, 4, 5, 6, 8},
         c \in {0 - 1, 0, 2, 4, 6, 7, 9} }

\* euler with 2 pi added to the angle at place k.
ShiftedBy2Pi(euler, k) == Vec([euler.data EXCEPT ![k] = Add(@, Angle(8))])

\* (e0 + pi, -e1, e2 + pi)
FlippedByPi(euler) ==
    Vec(<<Add(euler.data[1], Angle(4)), Neg(euler.data[2]), Add(euler.data[3], Angle(4))>>)

\* out = norm_euler_repax(euler), with what the same call returns for its own
\* result and for the triples equivalent to euler, and the matrices of euler
\* and of out.
NormEulerRepax ==
    /\ cv.pc = "args"
    /\ \E out \in {norm_euler_repax(cv.euler)} :
          cv' = [pc |-> "normed", rotation_axes |-> cv.rotation_axes, euler |-> cv.euler,
                 out |-> out, again |-> norm_euler_repax(out),
                 shifted |-> {norm_euler_repax(ShiftedBy2Pi(cv.euler, k)) : k \in 1..3},
                 flipped |-> norm_euler_repax(FlippedByPi(cv.euler)),
                 R_in |-> R_euler(cv.euler, cv.rotation_axes).value,
                 R_out |-> R_euler(out, cv.rotation_axes).value]
    /\ UNCHANGED <<seq, ncalls, last, rot, res, other, heap, workers>>

InitNorm ==
    /\ \E ax \in RepaxAxes, e \in RepaxAngles :
          cv = [pc |-> "args", rotation_axes |-> ax, euler |-> Vec(e)]
    /\ rot = NoRot
    /\ res = NoRes
    /\ other = NoRot
    /\ seq = [constructed |-> FALSE, err |-> "", obj |-> NoSeq]
    /\ ncalls = 0
    /\ last = NoLast
    /\ heap = NoHeap
    /\ workers = NoWorkers

NextNorm == NormEulerRepax

SpecNorm == InitNorm /\ [][NextNorm]_vars

(***************************************************************************)
(* The setters called on an existing Rotation: set_with_quaternion,        *)
(* set_with_rotation_matrix and set_with_euler_angles, in any order.       *)
(***************************************************************************)
\* An assignment that evaluates its right side first and stores nothing.
assign_rotation_matrix_unset(self_matrix, out) == out.value

\* self.rotation_matrix = <call>: when the call raises, the assignment does
\* not happen.
assign_rotation_matrix(self_matrix, out) ==
    IF out.status = "ok" THEN out.value ELSE self_matrix

SetterMatrices == {Ones33, Identity3, R_x(Angle(2))}

SetterQuats ==
    { Vec(QuatB), Vec(QuatC), Vec(QuatA \o <<Zero>>), Vec(<<One, Zero, Zero>>),
      Array(<<2, 2>>, QuatA), Array(<<4, 1>>, QuatB), NoneValue }

SetterRotationMatrices ==
    MatrixValues \cup { Vec(Identity3.data), Array(<<2, 2>>, QuatA),
                        Array(<<1, 9>>, Identity3.data), NoneValue }

SetterEulers ==
    { [euler_angles |-> Vec(EulerA), rotation_axes |-> ax] :
         ax \in { <<"z", "x", "z">>, <<"x", "y", "z">>, <<"x", "y", "a">>,
                  <<"a", "y", "z">>, <<"a", "b", "c">> } }
    \cup { [euler_angles |-> v, rotation_axes |-> <<"z", "x", "z">>] :
              v \in { Vec(EulerB), Vec(QuatA), Vec(<<Angle(1), Angle(2)>>), NoneValue } }

\* What a setter call leaves behind: the argument, the outcome, and the
\* matrix the Rotation held when the call began.
SetterCall(op, arg, rotation_axes, out) ==
    /\ rot' = [rot EXCEPT !.rotation_matrix = assign_rotation_matrix(@, out)]
    /\ res' = [op |-> op, arg |-> arg, rotation_axes |-> rotation_axes,
               status |-> out.status, err |-> out.err, before |-> rot.rotation_matrix]
    /\ UNCHANGED <<seq, ncalls, last, cv, other, heap, workers>>

SetWithQuaternion ==
    /\ rot.exists
    /\ \E quaternion \in SetterQuats :
          SetterCall("set_with_quaternion", quaternion, <<>>, set_with_quaternion(quaternion))

SetWithRotationMatrix ==
    /\ rot.exists
    /\ \E rotation_matrix \in SetterRotationMatrices :
          SetterCall("set_with_rotation_matrix", rotation_matrix, <<>>,
                     set_with_rotation_matrix(rotation_matrix))

SetWithEulerAngles ==
    /\ rot.exists
    /\ \E e \in SetterEulers :
          SetterCall("set_with_euler_angles", e.euler_angles, e.rotation_axes,
                     set_with_euler_angles(e.euler_angles, e.rotation_axes))

InitSetter ==
    /\ \E M \in SetterMatrices :
          rot = [exists |-> TRUE, rotation_matrix |-> M,
                 values |-> NoneValue, formalism |-> NoneTag]
    /\ res = NoRes
    /\ seq = [constructed |-> FALSE, err |-> "", obj |-> NoSeq]
    /\ ncalls = 0
    /\ last = NoLast
    /\ cv = NoConv
    /\ other = NoRot
    /\ heap = NoHeap
    /\ workers = NoWorkers

NextSetter ==
    \/ SetWithQuaternion
    \/ SetWithRotationMatrix
    \/ SetWithEulerAngles

SpecSetter == InitSetter /\ [][NextSetter]_vars

(***************************************************************************)
(* Claims about the Rotations machine.                                     *)
(***************************************************************************)
IsRandomSeq == seq.constructed /\ seq.obj.formalism \in RandomTags

\* The number of dimensions of one entry of a list of values.
EntryNdim(formalism) == IF formalism = Tag("rotation_matrix") THEN 2 ELSE 1

\* seq was built from a fixed list of n >= 1 entries.
IsFixedList ==
    /\ seq.constructed
    /\ seq.obj.formalism \notin RandomTags
    /\ ~IsNone(seq.obj.values)
    /\ Ndim(seq.obj.values) = EntryNdim(seq.obj.formalism) + 1
    /\ seq.obj.values.shape[1] >= 1

ListLen == seq.obj.values.shape[1]

\* The matrix of the Rotation built from entry j (counted from 0) of the list.
BuiltFromEntry(j) ==
    Rotation_init(SubArray(seq.obj.values, j), seq.obj.formalism, NoDraw).value

\* C1: a Rotations built from a fixed list of n >= 1 entries holds one
\* Rotation per entry, in input order, and the k-th get_next_rotation()
\* returns the Rotation built from entry (k-1) mod n.
C1_NextCyclesThroughEntries ==
    IsFixedList =>
        /\ Len(seq.obj.rotations) = ListLen
        /\ \A j \in 0..(ListLen - 1) : seq.obj.rotations[j + 1] = BuiltFromEntry(j)
        /\ last.op = "next" =>
              /\ last.status = "ok"
              /\ last.idx = ((ncalls - 1) % ListLen) + 1
              /\ last.matrix = BuiltFromEntry((ncalls - 1) % ListLen)

\* The 4th call on a list of three entries returned entry 0.
C1_Witness ==
    /\ IsFixedList
    /\ ListLen = 3
    /\ ncalls = 4
    /\ last.op = "next"
    /\ last.idx = 1
    /\ last.matrix = BuiltFromEntry(0)

\* C2: a Rotations of a random formalism holds exactly one Rotation; a
\* get_next_rotation() returns it carrying the draw of that same call, and
\* get_current_rotation() does not redraw: called after get_next_rotation()
\* it yields the matrix get_next_rotation() returned.
C2_RandomNextRedraws ==
    IsRandomSeq =>
        /\ Len(seq.obj.rotations) = 1
        /\ last.op \in {"next", "current"} =>
              /\ last.status = "ok"
              /\ last.idx = 1
        /\ (last.op \in {"next", "current"} /\ ncalls >= 1) =>
              /\ last.matrix = set_as_random_formalism(NoneValue, seq.obj.formalism, last.draw)
              /\ seq.obj.rotations[1] = last.matrix

\* get_current_rotation() was called right after the third redraw.
C2_Witness ==
    /\ IsRandomSeq
    /\ seq.obj.formalism = Tag("random")
    /\ ncalls = 3
    /\ last.op = "current"
    /\ last.prev = "next"
    /\ last.matrix = set_as_random(last.draw)
    /\ last.matrix # Identity3

\* C3: get_current_rotation() leaves the cursor, the list and every matrix
\* as they were, and in fixed-list mode the get_next_rotation() that follows
\* it returns the entry it returned.
C3_CurrentDoesNotAdvance ==
    [][ /\ last'.op = "current" => (seq' = seq /\ ncalls' = ncalls)
        /\ (IsFixedList /\ last.op = "current" /\ last'.op = "next") =>
              /\ last'.status = "ok"
              /\ last'.idx = last.idx
              /\ last'.matrix = last.matrix ]_vars

\* In a list of three entries, get_next_rotation() returned the third entry
\* right after get_current_rotation() had returned it.
C3_Witness ==
    /\ IsFixedList
    /\ ListLen = 3
    /\ last.op = "next"
    /\ last.prev = "current"
    /\ last.idx = 3
    /\ ncalls = 6

(***************************************************************************)
(* Claims about the Rotation machine.                                      *)
(***************************************************************************)
\* The Rotation was constructed with no values and no formalism.
BuiltWithNoArgs == rot.exists /\ IsNone(rot.values) /\ rot.formalism = NoneTag

\* C4: a Rotation constructed with no values and no formalism is the
\* identity rotation: its matrix is the 3x3 identity, and rotate_vector(v)
\* returns v for every 3-vector v.
C4_NoArgsIsIdentity ==
    BuiltWithNoArgs =>
        /\ rot.rotation_matrix = Identity3
        /\ (res.op = "rotate_vector" /\ res.vector.shape = <<3>> /\ res.order = "xyz") =>
              /\ res.status = "ok"
              /\ res.value = res.vector

IsConstruction(formalism) == res.op = "Rotation" /\ res.formalism = formalism

\* C5: construction with formalism 'rotation_matrix' from a 3x3 array M
\* succeeds only if M is a rotation matrix; for every other 3x3 array it
\* fails with the not-orthogonal error and no Rotation is returned.
C5_OnlyRotationMatricesAccepted ==
    (IsConstruction(Tag("rotation_matrix")) /\ res.values.shape = <<3, 3>>) =>
        /\ res.status = "ok" => IsRotationMatrix(res.values)
        /\ ~IsRotationMatrix(res.values) =>
              /\ res.status = "error"
              /\ res.err = "NotOrthogonalError"
              /\ ~rot.exists

\* C6: construction with formalism 'quaternion' from an array that is not a
\* vector of length 4 fails with the shape error, raised by the check of
\* the input and not by the conversion, and no Rotation is returned.
C6_NotLength4Rejected ==
    (IsConstruction(Tag("quaternion")) /\ ~IsNone(res.values)
        /\ res.values.shape # <<4>>) =>
            /\ res.status = "error"
            /\ res.err = "ShapeError"
            /\ ~rot.exists

\* The twelve supported conventions: no two adjacent axes are equal.
IsAxisTriple(axes) == Len(axes) = 3 /\ \A n \in 1..3 : axes[n] \in Axes
IsSupportedConvention(axes) ==
    IsAxisTriple(axes) /\ axes[1] # axes[2] /\ axes[2] # axes[3]

\* C7: three axes over {x,y,z} that are not one of the twelve supported
\* conventions are rejected with the invalid-axis error, in the constructor
\* and in get_as_euler_angles; the twelve supported ones are accepted.
C7_UnsupportedConventionRejected ==
    /\ (res.op = "Rotation" /\ IsEulerTag(res.formalism) /\ Size(res.values) = 3
           /\ IsAxisTriple(res.formalism.axes)) =>
          IF IsSupportedConvention(res.formalism.axes)
          THEN res.status = "ok"
          ELSE res.status = "error" /\ res.err = "InvalidAxisError"
    /\ (res.op = "get_as_euler_angles" /\ IsAxisTriple(res.rotation_axes)) =>
          IF IsSupportedConvention(res.rotation_axes)
          THEN res.status = "ok" /\ ~IsNone(res.value)
          ELSE res.status = "error" /\ res.err = "InvalidAxisError"

\* The tags a Rotation can be constructed with.
IsSupportedTag(formalism) ==
    \/ formalism \in {Tag("quaternion"), Tag("rotation_matrix")} \cup RandomTags
    \/ IsEulerTag(formalism)

\* C9: construction with a tag outside the supported set, or with values
\* and no tag, fails with the unknown-formalism error and returns no object.
C9_UnknownTagRejected ==
    (res.op = "Rotation" /\ ~IsSupportedTag(res.formalism)
        /\ ~(IsNone(res.values) /\ res.formalism = NoneTag)) =>
            /\ res.status = "error"
            /\ res.err = "UnknownFormalismError"
            /\ ~rot.exists

(***************************************************************************)
(* Claims about the conversion machine.                                    *)
(***************************************************************************)
\* C8: euler_from_quat(q, axes) fails with the invalid-axis error whenever
\* axes is not three letters over {x,y,z}: an error outcome, never a normal
\* return of angles or of an empty value.
C8_InvalidAxesRaise ==
    (cv.pc = "euler" /\ ~IsAxisTriple(cv.rotation_axes)) =>
        /\ cv.status = "error"
        /\ cv.err = "InvalidAxisError"

\* The sum of the absolute differences of the components of two quaternions.
SumAbsDiff(p, q) ==
    Add(Add(FAbs(Sub(p.data[1], q.data[1])), FAbs(Sub(p.data[2], q.data[2]))),
        Add(FAbs(Sub(p.data[3], q.data[3])), FAbs(Sub(p.data[4], q.data[4]))))

\* C10: for every unit quaternion q,
\* uniquify_quat(quat_from_rotmx(rotmx_from_quat(q))) equals uniquify_quat(q)
\* within 1e-5.
C10_RoundTrip ==
    cv.pc = "unique" => Lt(SumAbsDiff(cv.u2, cv.u), Rat(1, 100000))

(***************************************************************************)
(* Claims about the Euler machine.                                         *)
(***************************************************************************)
\* The sum of the absolute differences of the elements of two arrays of n
\* elements.
ArrayDist(A, B, n) == SumTo([k \in 1..n |-> FAbs(Sub(A.data[k], B.data[k]))], n)

\* C11: for each of the twelve supported axis sequences and angles e0 in
\* [0, 2*pi), e1 in [0, pi), e2 in [0, 2*pi), the matrix rebuilt from the Euler
\* angles that euler_from_quat extracts from the quaternion of R0 is within
\* 1e-5 of R0.
C11_EulerRoundTrip ==
    cv.pc = "rebuilt" => Lt(ArrayDist(cv.R1, cv.R0, 9), Rat(1, 100000))

(***************************************************************************)
(* Claims about the pair machine.                                          *)
(***************************************************************************)
\* The second Rotation was set with the negative of the quaternion the
\* first was set with.
PairNegated ==
    /\ rot.exists
    /\ other.exists
    /\ rot.formalism = Tag("quaternion")
    /\ other.values = NegArray(rot.values)

\* C12: the Rotation built from a unit quaternion q and the Rotation built
\* from -q hold the same matrix, and is_similar between them returns true
\* in either direction.
C12_DoubleCover ==
    PairNegated =>
        /\ rot.rotation_matrix = other.rotation_matrix
        /\ res.op = "is_similar" => res.value

\* is_similar, called on the Rotation built from -q, returned true for a half
\* turn about an axis with components of both signs.
C12_Witness ==
    /\ PairNegated
    /\ res.op = "is_similar"
    /\ res.receiver = "other"
    /\ res.value
    /\ rot.values.data[1] = Zero
    /\ Sign(rot.values.data[2]) > 0
    /\ Sign(rot.values.data[3]) < 0

\* C15: rotate_vector(v, 'zyx') returns reverse(R.reverse(v)) and equals
\* rotate_vectors on the batch [v] with 'zyx'; with 'xyz' both return R.v;
\* any other order is an error.
C15_AxisOrderFlag ==
    /\ (res.op = "rotate_vector" /\ res.vector.shape = <<3>>) =>
          IF res.order = "xyz"
          THEN res.status = "ok" /\ res.value.data = DotVec(rot.rotation_matrix, res.vector.data)
          ELSE IF res.order = "zyx"
          THEN /\ res.status = "ok"
               /\ res.value.data =
                     Reverse3(DotVec(rot.rotation_matrix, Reverse3(res.vector.data)))
               /\ res.value.data =
                     rotate_vectors(rot.rotation_matrix, Array(<<1, 3>>, res.vector.data),
                                    "zyx").value.data
          ELSE res.status = "error"
    /\ (res.op = "rotate_vectors" /\ res.vectors.shape = <<1, 3>>) =>
          IF res.order = "xyz"
          THEN res.status = "ok" /\ res.value.data = DotVec(rot.rotation_matrix, res.vectors.data)
          ELSE IF res.order = "zyx"
          THEN /\ res.status = "ok"
               /\ res.value.data =
                     Reverse3(DotVec(rot.rotation_matrix, Reverse3(res.vectors.data)))
          ELSE res.status = "error"

\* C16: for a Rotation whose matrix R is a rotation matrix, after invert()
\* the matrix is the transpose of R, and a second invert() restores R.
C16_InvertIsInverse ==
    (res.op = "invert" /\ IsRotationMatrix(res.before)) =>
        /\ res.status = "ok"
        /\ rot.rotation_matrix = Transpose(res.before)
        /\ (res.twice /\ IsRotationMatrix(res.first)) => rot.rotation_matrix = res.first

\* The operations that read a Rotation.
ReadOps ==
    { "rotate_vector", "rotate_vectors", "get_as_quaternion", "get_as_euler_angles",
      "get_as_rotation_matrix", "is_similar" }

\* C20: rotate_vector, rotate_vectors, get_as_quaternion, get_as_euler_angles,
\* get_as_rotation_matrix and is_similar leave the matrix of the Rotation
\* (and of the other Rotation) as it was; the matrix changes only in a
\* constructor or in invert.
C20_ReadsLeaveMatrix ==
    [][ /\ res'.op \in ReadOps => (rot' = rot /\ other' = other)
        /\ (rot.exists /\ rot'.rotation_matrix # rot.rotation_matrix) => res'.op = "invert"
      ]_vars

\* is_similar returned false and the Rotation, set with a quaternion that is
\* not the identity, still holds the matrix of that quaternion.
C20_Witness ==
    /\ res.op = "is_similar"
    /\ res.receiver = "rot"
    /\ ~res.value
    /\ rot.exists
    /\ rot.rotation_matrix = rotmx_from_quat(rot.values).value
    /\ rot.rotation_matrix # Identity3
    /\ rot.rotation_matrix # Transpose(rot.rotation_matrix)

(***************************************************************************)
(* Claims about the axis-rotation tests.                                   *)
(***************************************************************************)
\* cos(t) on axis i_rot+1 and sin(t) on axis i_rot+2, indices modulo 3.
TurnedUnit(i_rot, t) ==
    [k \in 1..3 |-> IF k = ((i_rot + 1) % 3) + 1 THEN Cos(t)
                    ELSE IF k = ((i_rot + 2) % 3) + 1 THEN Sin(t) ELSE Zero]

\* C13: the Rotation built for the axis a and the angle t from the quaternion
\* [cos(t/2), sin(t/2) u_a], from the matrix R_a(t) or from the Euler angles
\* [t,0,0] with a sequence that repeats a holds R_a(t), and it turns the unit
\* vector of the next axis towards the one after it: to cos(t) on axis i+1
\* and sin(t) on axis i+2.
C13_AxisRotation ==
    cv.pc \in {"built", "rotated"} =>
        /\ rot.exists
        /\ rot.rotation_matrix = AxisRotations(Angle(cv.angle))[cv.i_rot + 1]
        /\ cv.pc = "rotated" =>
              /\ res.status = "ok"
              /\ res.value.data = TurnedUnit(cv.i_rot, Angle(cv.angle))

\* pi/4 about x, set with Euler angles, has mapped [0,1,0] to [0, sqrt(2)/2, sqrt(2)/2].
C13_Witness ==
    /\ cv.pc = "rotated"
    /\ cv.route = "euler_angles"
    /\ cv.i_rot = 0
    /\ cv.angle = 1
    /\ res.vector.data = <<Zero, One, Zero>>
    /\ res.value.data = <<Zero, HalfSqrt2, HalfSqrt2>>

(***************************************************************************)
(* Claims about storage.                                                   *)
(***************************************************************************)
\* The caller has written to the array it passed, or to the array returned.
CallerWrote ==
    \/ heap.arg # 0 /\ heap.arrays[heap.arg] # rot.values
    \/ heap.ret # 0 /\ heap.arrays[heap.ret] # rot.values

\* C14: the matrix of a Rotation built from an array of the caller stays
\* the matrix it was built with, whatever the caller writes to that array or
\* to an array returned by get_as_rotation_matrix, and a later rotate_vector
\* gives the result of that matrix.
C14_NoSharedStorage ==
    heap.self # 0 =>
        /\ heap.self # heap.arg
        /\ heap.self # heap.ret
        /\ heap.arrays[heap.self] = rot.values
        /\ res.op = "rotate_vector" =>
              res.value = rotate_vector(rot.values, res.vector, res.order).value

\* The caller has written to both arrays, then rotate_vector was called.
C14_Witness ==
    /\ heap.self # 0
    /\ heap.ret # 0
    /\ heap.arrays[heap.arg] # rot.values
    /\ heap.arrays[heap.ret] # rot.values
    /\ heap.arrays[heap.self] = rot.values
    /\ res.op = "rotate_vector"
    /\ res.status = "ok"

(***************************************************************************)
(* Claims about the quaternion helpers.                                    *)
(***************************************************************************)
\* C17: norm_quat(q, tolerance) of a nonzero q never fails; it returns q
\* rescaled to length 1 when | |q| - 1 | > tolerance and an equal copy of q
\* otherwise, and norm_quat of its result is that result.
C17_NormQuat ==
    cv.pc = "norm_quat" =>
        /\ cv.out.status = "ok"
        /\ IF Gt(FAbs(Sub(length(cv.q.data), One)), cv.tolerance)
           THEN length(cv.out.value.data) = One
           ELSE cv.out.value = cv.q
        /\ cv.again = cv.out

\* The first nonzero component of q, in the order w, x, y, z, is positive.
FirstNonzeroPositive(q) ==
    \E k \in 1..4 : Gt(q[k], Zero) /\ \A j \in 1..(k - 1) : q[j] = Zero

\* C18: uniquify_quat(q) is q or -q with its first nonzero component
\* positive, the zero quaternion is returned as it is, uniquify_quat(-q) is
\* uniquify_quat(q), and uniquify_quat of the result is the result.
C18_UniquifyQuat ==
    cv.pc = "uniquify_quat" =>
        /\ cv.u \in {cv.q, NegArray(cv.q)}
        /\ IF cv.q.data = <<Zero, Zero, Zero, Zero>> THEN cv.u = cv.q
           ELSE FirstNonzeroPositive(cv.u.data)
        /\ cv.u_neg = cv.u
        /\ cv.uu = cv.u

\* A quaternion with w = x = 0 and y < 0 was negated.
C18_Witness ==
    /\ cv.pc = "uniquify_quat"
    /\ cv.q.data[1] = Zero
    /\ cv.q.data[2] = Zero
    /\ Lt(cv.q.data[3], Zero)
    /\ Gt(cv.q.data[4], Zero)
    /\ cv.u = NegArray(cv.q)
    /\ cv.u_neg = cv.u

\* C19: rand_quat returns [cos th2 sqrt(x0), sin th1 sqrt(1-x0),
\* cos th1 sqrt(1-x0), sin th2 sqrt(x0)] with th1 = 2 pi x1, th2 = 2 pi x2,
\* and the result has norm 1.
C19_RandQuat ==
    cv.pc = "rand_quat" =>
        /\ cv.q.data =
              << Mul(Cos(TwoPiTimes(cv.x[3])), Sqrt(cv.x[1])),
                 Mul(Sin(TwoPiTimes(cv.x[2])), Sqrt(Sub(One, cv.x[1]))),
                 Mul(Cos(TwoPiTimes(cv.x[2])), Sqrt(Sub(One, cv.x[1]))),
                 Mul(Sin(TwoPiTimes(cv.x[3])), Sqrt(cv.x[1])) >>
        /\ SqNorm(cv.q.data[1], cv.q.data[2], cv.q.data[3], cv.q.data[4]) = One

(***************************************************************************)
(* More claims about the Rotations machine.                                *)
(***************************************************************************)
\* C21: a constructed Rotations holds at least one Rotation, and every call
\* of get_current_rotation() and get_next_rotation() returns a Rotation.
C21_SequenceNonEmpty ==
    seq.constructed =>
        /\ Len(seq.obj.rotations) >= 1
        /\ last.op \in {"next", "current"} => last.status = "ok"

(***************************************************************************)
(* Claims about threads sharing a Rotations.                               *)
(***************************************************************************)
\* C22: with every get_next_rotation() call made under the callers' lock,
\* the m-th call to return, whichever thread made it, returns entry
\* (m-1) mod n of the list, and at most one thread is inside a call.
C22_SerializedCalls ==
    /\ InCall <= 1
    /\ last.op = "next" =>
          /\ last.status = "ok"
          /\ last.idx = ((ncalls - 1) % Len(seq.obj.rotations)) + 1

\* Both threads have returned from calls, the list has been cycled through
\* once and the call that returned last got the entry of its rank.
C22_Witness ==
    /\ last.op = "next"
    /\ workers.done[1] >= 1
    /\ workers.done[2] >= 2
    /\ ncalls > Len(seq.obj.rotations)
    /\ last.idx = ((ncalls - 1) % Len(seq.obj.rotations)) + 1

(***************************************************************************)
(* Claims about the quaternion algebra.                                    *)
(***************************************************************************)
\* C23: rotate_quat(v, q), the vector part of q.[0,v].conj(q), equals
\* rotmx_from_quat(q).v for every unit quaternion q and vector v.
C23_SandwichIsMatrix ==
    cv.pc = "rotate_quat" => cv.by_quat = cv.by_matrix

\* A quaternion with four nonzero components has turned (1, 2, -1/2) to
\* another vector, the same by both ways.
C23_Witness ==
    /\ cv.pc = "rotate_quat"
    /\ \A k \in 1..4 : cv.q[k] # Zero
    /\ cv.v = <<One, Two, Neg(Half)>>
    /\ cv.by_quat # cv.v
    /\ cv.by_quat = cv.by_matrix

\* The Hamilton product written with the scalar and the vector parts:
\* [w1 w2 - v1.v2, w1 v2 + w2 v1 + v1 x v2].
HamiltonRef(p, q) ==
    << Sub(Mul(p[1], q[1]), dotproduct(Tail(p), Tail(q))) >> \o
    [k \in 1..3 |-> Add(Add(Mul(p[1], q[k + 1]), Mul(q[1], p[k + 1])),
                        crossproduct(Tail(p), Tail(q))[k])]

\* C30: quat_mult(q1, q2) is the Hamilton product, [1,0,0,0] is its identity
\* on both sides, it is associative, conj(q1 q2) = conj(q2) conj(q1), and
\* i j = k while j i = -k.
C30_HamiltonProduct ==
    cv.pc = "quat_mult" =>
        /\ cv.p12 = HamiltonRef(cv.q1, cv.q2)
        /\ cv.one_q1 = cv.q1
        /\ cv.q1_one = cv.q1
        /\ cv.p12_3 = cv.p1_23
        /\ cv.conj_p12 = cv.conj2_conj1
        /\ (cv.q1 = <<Zero, One, Zero, Zero>> /\ cv.q2 = <<Zero, Zero, One, Zero>>) =>
              /\ cv.p12 = <<Zero, Zero, Zero, One>>
              /\ cv.p21 = <<Zero, Zero, Zero, Neg(One)>>

\* i j = k and j i = -k were computed, so the product does not commute.
C30_Witness ==
    /\ cv.pc = "quat_mult"
    /\ cv.q1 = <<Zero, One, Zero, Zero>>
    /\ cv.q2 = <<Zero, Zero, One, Zero>>
    /\ cv.p12 = <<Zero, Zero, Zero, One>>
    /\ cv.p21 = <<Zero, Zero, Zero, Neg(One)>>
    /\ cv.p12 # cv.p21

(***************************************************************************)
(* Claims about the branches of euler_from_quat.                           *)
(***************************************************************************)
\* C24: a repeated-axis sequence computes e1 = arccos(v3r[i1]), in one
\* branch when i2 = i1+1 mod 3 and in another when i2 = i1-1 mod 3; an
\* all-distinct sequence computes e1 = arcsin(v3r[i1]) when i2 = i1+1 mod 3
\* and -arcsin(v3r[i1]) when i2 = i1-1 mod 3; a string that is not one of
\* the twelve sequences is handled by none of the four branches.
C24_FourFamilies ==
    cv.pc = "classified" =>
        IF ~IsSupportedConvention(cv.rotation_axes) THEN cv.family \notin 1..4
        ELSE IF cv.i1 = cv.i3
        THEN /\ cv.e1 = ArcCos(cv.v3r[cv.i1 + 1])
             /\ cv.family = (IF cv.i2 = (cv.i1 + 1) % 3 THEN 3 ELSE 1)
        ELSE /\ cv.e1 = (IF cv.i2 = (cv.i1 + 1) % 3 THEN ArcSin(cv.v3r[cv.i1 + 1])
                         ELSE Neg(ArcSin(cv.v3r[cv.i1 + 1])))
             /\ cv.family = (IF cv.i2 = (cv.i1 + 1) % 3 THEN 4 ELSE 2)

(***************************************************************************)
(* Claims about norm_euler_repax.                                          *)
(***************************************************************************)
\* C25: for every repeated-axis sequence and angle triple e, the matrix
\* built from norm_euler_repax(e) is the matrix built from e.
C25_NormKeepsRotation ==
    cv.pc = "normed" => cv.R_out = cv.R_in

\* C26: norm_euler_repax returns its own result unchanged, its result has
\* e0 and e2 in [0, 2 pi) and e1 in [0, pi], and e with 2 pi added to any
\* angle, and (e0 + pi, -e1, e2 + pi), get the result of e.
C26_NormCanonical ==
    cv.pc = "normed" =>
        /\ cv.again = cv.out
        /\ \A k \in {1, 3} : Ge(cv.out.data[k], Angle(0)) /\ Lt(cv.out.data[k], Angle(8))
        /\ Ge(cv.out.data[2], Angle(0)) /\ Ge(Angle(4), cv.out.data[2])
        /\ cv.shifted = {cv.out}
        /\ cv.flipped = cv.out

(***************************************************************************)
(* Claims about the setters of a Rotation.                                 *)
(***************************************************************************)
SetterOps == {"set_with_quaternion", "set_with_rotation_matrix", "set_with_euler_angles"}

\* The argument of the last setter call fails the setter's validation: the
\* size (for a matrix, also the number of dimensions) is wrong, a 3x3 matrix
\* has a row whose squared length is off 1 by more than the tolerance, or one
\* of the letters paired with an angle is no axis.
FailsValidation ==
    /\ ~IsNone(res.arg)
    /\ CASE res.op = "set_with_quaternion" -> Size(res.arg) # 4
         [] res.op = "set_with_rotation_matrix" ->
               \/ Size(res.arg) # 9
               \/ Ndim(res.arg) # 2
               \/ /\ res.arg.shape = <<3, 3>>
                  /\ \E i \in 0..2 : Gt(FAbs(Sub(GramDiag(res.arg, i), One)), tol_unitary)
         [] res.op = "set_with_euler_angles" ->
               \/ Size(res.arg) # 3
               \/ \E n \in 1..3 : res.rotation_axes[n] \notin {"x", "y", "z"}

\* C27: a setter called on an existing Rotation with an argument that fails
\* validation ends in an error, and after a setter call that ended in an
\* error the Rotation holds the matrix it held before the call.
C27_FailedSetterKeepsMatrix ==
    res.op \in SetterOps =>
        /\ FailsValidation => res.status = "error"
        /\ res.status = "error" => rot.rotation_matrix = res.before

\* A setter was refused on a Rotation that held a quarter turn.
C27_Witness ==
    /\ res.op \in SetterOps
    /\ FailsValidation
    /\ res.status = "error"
    /\ res.before = R_x(Angle(2))

(***************************************************************************)
(* Claims about the Rotation objects a random sequence hands out.          *)
(***************************************************************************)
\* C28: in a random-formalism sequence the Rotation returned by a
\* get_next_rotation() call keeps the matrix it had when it was returned:
\* no later call on the sequence alters it.
C28_ReturnedRotationKept ==
    [][ (IsRandomSeq /\ last.op = "next" /\ last.status = "ok")
            => seq'.obj.rotations[last.idx] = last.matrix ]_vars

(***************************************************************************)
(* Claims about is_similar on rotation matrices.                           *)
(***************************************************************************)
\* Every entry of A is within 1/1000 of the entry of B: a bound looser than
\* any the default tolerance of is_similar allows for.
MatricesClose(A, B) ==
    /\ A.shape = B.shape
    /\ \A n \in 1..Len(A.data) : Lt(FAbs(Sub(A.data[n], B.data[n])), Rat(1, 1000))

\* C29: for two Rotations holding orthogonal matrices of determinant +1,
\* half turns included, is_similar with the default tolerance returns true
\* only if the two matrices are equal within the tolerance.
C29_SimilarIsSound ==
    ( /\ res.op = "is_similar"
      /\ res.value = TRUE
      /\ IsRotationMatrix(rot.rotation_matrix)
      /\ IsRotationMatrix(other.rotation_matrix) )
        => MatricesClose(rot.rotation_matrix, other.rotation_matrix)

=============================================================================
